---- MODULE Spec2Model ----
(***************************************************************************)
(* A model of the block core of libkbfs:                                   *)
(*   - the block retrieval queue (block_retrieval_queue.go);               *)
(*   - the per-folder block operations (folder_block_ops.go): write,       *)
(*     truncate, read and the three-phase sync with deferred writes.       *)
(***************************************************************************)
EXTENDS Integers, Sequences, FiniteSets, TLC

(***************************************************************************)
(* Generic helpers.                                                        *)
(***************************************************************************)
Range(s) == {s[i] : i \in 1..Len(s)}

SeqMinus(s, x) == SelectSeq(s, LAMBDA y : y # x)

\* f with key k removed / set (maps are functions over a finite domain)
MapDel(f, k) == [x \in (DOMAIN f) \ {k} |-> f[x]]

MapPut(f, k, v) == [x \in (DOMAIN f) \cup {k} |-> IF x = k THEN v ELSE f[x]]

EmptyMap == [x \in {} |-> 0]

(***************************************************************************)
(* Bounds of the retrieval-queue model.                                    *)
(***************************************************************************)
\* number of worker goroutines (the numWorkers constructor argument)
NumWorkers == 2

\* number of Request calls explored
MaxRequests == 4

\* of which: Request calls at the low priority in the coalescing scenario
MaxLowRequests == 2

\* block pointers requested
BlockPtrs == {"P", "Q", "R"}

\* request priorities
LowPriority == 1

HighPriority == 5

Priorities == {LowPriority, HighPriority}

WorkerIds == 1..NumWorkers

VARIABLES
    \* ---- blockRetrievalQueue ----
    ptrs,            \* brq.ptrs: BlockPointer -> retrieval (by insertionOrder)
    retrievals,      \* the blockRetrieval objects, keyed by insertionOrder
    insertionCount,  \* brq.insertionCount
    heap,            \* brq.heap: retrieval ids in heap order
    workerQueue,     \* brq.workerQueue: channel of worker channels
    workerCh,        \* per worker: the buffer of the channel it made
    notifiers,       \* notifyWorker goroutines: number waiting on workerQueue
    holding,         \* notifyWorker goroutines that took a channel: bag as seq
    worker,          \* per worker: pc and the retrieval it works on
    \* ---- history of the retrieval queue ----
    requestCount,    \* number of Request calls so far
    requestLog,      \* per pointer: request ids issued since the last finalize
    dispatchLog,     \* retrieval ids in the order they were popped
    dispatchPrio,    \* retrieval id -> priority at the moment it was popped
    workAsked,       \* some worker has called WorkOnRequest
    requestAfterWork,\* a Request was made after a worker asked for work
    lowIssued,       \* scenario: low-priority requests issued
    highReq,         \* scenario: the high-priority request's id, or -1
    highRetr,        \* scenario: the retrieval that request joined, or -1
    highOnHeap,      \* scenario: that retrieval was on the heap at that time
    popEmpty,        \* a dispatcher popped an empty heap
    \* ---- folderBlockOps and its collaborators ----
    fbo,             \* the folder's block state (record, see FboInit)
    syncs,           \* per file: the fileSyncState held by the syncing caller
    \* ---- history of the block operations ----
    opCount,         \* Write and Truncate calls so far
    syncCount,       \* StartSync calls so far
    lastOp,          \* what the last block operation was and did
    lastWrite,       \* per file: the last successful Write, if still current
    \* ---- a Read in progress ----
    reader,          \* the Read call that may give up the block lock
    \* ---- the dirty block cache's admission of writes ----
    dbc,             \* DirtyBlockCache: unsynced and waiting bytes
    writer,          \* the Write call that asked for a permit
    \* ---- folderBlockManager and its servers ----
    srv,             \* MDServer and BlockServer: revisions, lock, blocks
    fbm,             \* the folderBlockManager's fields
    qr,              \* the last run of doReclamation: what it did
    pass,            \* the pass of processBlocksToDelete in progress
    dg,              \* the call of doChunkedDowngrades in progress
    \* ---- the metadata cache ----
    mdcache,         \* MDCacheStandard: the entries, most recently used first
    mdLog,           \* the Put and Get calls so far, with what they returned
    \* ---- MDServerMemory and its clients ----
    mds,             \* mdServerMemShared: the dbs, the truncate lock, what is nil
    mdsPut,          \* per client: the Put it is in, between its locks
    mdsLast,         \* the last call that returned, and what it returned
    mdsCalls         \* calls of the server so far

brqVars == <<ptrs, retrievals, insertionCount, heap, workerQueue, workerCh,
             notifiers, holding, worker>>

brqHist == <<requestCount, requestLog, dispatchLog, dispatchPrio, workAsked,
             requestAfterWork, lowIssued, highReq, highRetr, highOnHeap, popEmpty>>

fboVars == <<fbo, syncs>>

fboHist == <<opCount, syncCount, lastOp, lastWrite>>

readVars == <<reader>>

dbcVars == <<dbc, writer>>

fbmSteps == <<pass, dg>>

fbmVars == <<srv, fbm, qr, fbmSteps>>

mdcVars == <<mdcache, mdLog>>

mdsVars == <<mds, mdsPut, mdsLast, mdsCalls>>

vars == <<brqVars, brqHist, fboVars, fboHist, readVars, dbcVars, fbmVars, mdcVars, mdsVars>>

(***************************************************************************)
(* blockRetrievalHeap: ordering of retrievals.                             *)
(***************************************************************************)
\* brh.Less: larger priority first, then smaller insertionOrder
HeapLess(a, b) ==
    \/ a.priority > b.priority
    \/ a.priority = b.priority /\ a.insertionOrder < b.insertionOrder

\* position of id among ids under HeapLess (0-based rank)
HeapRank(rs, ids, id) == Cardinality({j \in ids : HeapLess(rs[j], rs[id])})

\* heap order of a set of retrievals: a sorted array is a valid binary heap
HeapOrder(rs, ids) ==
    [i \in 1..Cardinality(ids) |->
        CHOOSE id \in ids : HeapRank(rs, ids, id) = i - 1]

\* heap.Push / heap.Fix / heap.Pop keep br.index: position in the heap or -1
Reindex(rs, h) ==
    [id \in DOMAIN rs |->
        IF id \in Range(h)
        THEN [rs[id] EXCEPT !.index = HeapRank(rs, Range(h), id)]
        ELSE [rs[id] EXCEPT !.index = -1]]

\* heap.Push left out: the retrieval never reaches the heap
HeapPush_lost(rs, h, id) == h

HeapPush(rs, h, id) == HeapOrder(rs, Range(h) \cup {id})

\* heap.Fix left out: the heap keeps its old order
HeapFix_none(rs, h) == h

HeapFix(rs, h) == HeapOrder(rs, Range(h))

(***************************************************************************)
(* Request.                                                                *)
(***************************************************************************)
\* line 98-104: the new retrieval
NewRetrieval(ptr, priority, order) ==
    [blockPtr |-> ptr, index |-> -1, priority |-> priority,
     insertionOrder |-> order, requests |-> <<>>]

\* line 111: br.requests = append(br.requests, ...)
AppendRequest_drop(reqs, r) == IF reqs = <<>> THEN <<r>> ELSE reqs

AppendRequest(reqs, r) == Append(reqs, r)

\* line 115: the retrieval is still queued and the request outranks it
ShouldElevate_never(br, priority) == FALSE

ShouldElevate_inFlight(br, priority) == priority > br.priority

ShouldElevate_any(br, priority) == br.index # -1 /\ priority # br.priority

ShouldElevate(br, priority) == br.index # -1 /\ priority > br.priority

NotifyWorkerStarts_always(n, exists) == n + 1

\* line 109: defer brq.notifyWorker(), only in the branch that pushed
NotifyWorkerStarts(n, exists) == IF exists THEN n ELSE n + 1

\* Request(ctx, priority, kmd, ptr, block), under brq.mtx
RequestStep(ptr, priority) ==
    LET exists == ptr \in DOMAIN ptrs
        id == IF exists THEN ptrs[ptr] ELSE insertionCount
        rs0 == IF exists THEN retrievals
               ELSE MapPut(retrievals, id,
                           NewRetrieval(ptr, priority, insertionCount))
        h0 == IF exists THEN heap ELSE HeapPush(rs0, heap, id)
        rs1 == Reindex(rs0, h0)
        req == requestCount
        rs2 == [rs1 EXCEPT ![id].requests = AppendRequest(@, req)]
        elevate == ShouldElevate(rs2[id], priority)
        rs3 == IF elevate THEN [rs2 EXCEPT ![id].priority = priority] ELSE rs2
        h1 == IF elevate THEN HeapFix(rs3, h0) ELSE h0
    IN  /\ requestCount < MaxRequests
        /\ requestCount' = requestCount + 1
        /\ ptrs' = IF exists THEN ptrs ELSE MapPut(ptrs, ptr, id)
        /\ insertionCount' = IF exists THEN insertionCount
                             ELSE insertionCount + 1
        /\ retrievals' = Reindex(rs3, h1)
        /\ heap' = h1
        /\ notifiers' = NotifyWorkerStarts(notifiers, exists)
        /\ requestLog' = [requestLog EXCEPT ![ptr] = Append(@, req)]
        /\ requestAfterWork' = (requestAfterWork \/ workAsked)
        /\ UNCHANGED <<workerQueue, workerCh, holding, worker, dispatchLog,
                       dispatchPrio, workAsked, popEmpty>>
        /\ UNCHANGED <<fboVars, fboHist, readVars, dbcVars, fbmVars, mdcVars, mdsVars>>

Request ==
    \E ptr \in BlockPtrs, priority \in Priorities :
        /\ RequestStep(ptr, priority)
        /\ UNCHANGED <<lowIssued, highReq, highRetr, highOnHeap>>

\* the coalescing scenario: Requests for one pointer, several at the low
\* priority and one at the high priority
ScenarioPtr == "P"

RequestLow ==
    /\ lowIssued < MaxLowRequests
    /\ RequestStep(ScenarioPtr, LowPriority)
    /\ lowIssued' = lowIssued + 1
    /\ UNCHANGED <<highReq, highRetr, highOnHeap>>

RequestHigh ==
    /\ highReq = -1
    /\ RequestStep(ScenarioPtr, HighPriority)
    /\ highReq' = requestCount
    /\ highRetr' = ptrs'[ScenarioPtr]
    /\ highOnHeap' = (ptrs'[ScenarioPtr] \in Range(heap'))
    /\ UNCHANGED lowIssued

(***************************************************************************)
(* notifyWorker: the goroutine started by each heap push.                  *)
(***************************************************************************)
\* line 82: ch := <-brq.workerQueue
NotifyTakeWorker ==
    /\ notifiers > 0
    /\ workerQueue # <<>>
    /\ notifiers' = notifiers - 1
    /\ holding' = Append(holding, Head(workerQueue))
    /\ workerQueue' = Tail(workerQueue)
    /\ UNCHANGED <<ptrs, retrievals, insertionCount, heap, workerCh, worker>>
    /\ UNCHANGED <<brqHist, fboVars, fboHist, readVars, dbcVars, fbmVars, mdcVars, mdsVars>>

\* line 84-87: lock, pop, send on the worker's channel
NotifyPop ==
    \E i \in 1..Len(holding) :
        LET ch == holding[i]
            rest == [j \in 1..(Len(holding) - 1) |->
                        IF j < i THEN holding[j] ELSE holding[j + 1]]
        IN  /\ holding' = rest
            /\ IF heap = <<>>
               THEN /\ popEmpty' = TRUE
                    /\ UNCHANGED <<heap, retrievals, workerCh, dispatchLog,
                                   dispatchPrio>>
               ELSE LET id == Head(heap)
                    IN  /\ Len(workerCh[ch]) < 1
                        /\ heap' = Tail(heap)
                        /\ retrievals' = Reindex(retrievals, Tail(heap))
                        /\ workerCh' = [workerCh EXCEPT ![ch] = Append(@, id)]
                        /\ dispatchLog' = Append(dispatchLog, id)
                        /\ dispatchPrio' = MapPut(dispatchPrio, id,
                                                  retrievals[id].priority)
                        /\ UNCHANGED popEmpty
            /\ UNCHANGED <<ptrs, insertionCount, workerQueue, notifiers,
                           worker, requestCount, requestLog, workAsked,
                           requestAfterWork, lowIssued, highReq,
                           highRetr, highOnHeap, fboVars, fboHist, readVars, dbcVars, fbmVars, mdcVars, mdsVars>>

(***************************************************************************)
(* Workers: WorkOnRequest, the fetch, FinalizeRequest, delivery.           *)
(***************************************************************************)
\* WorkOnRequest: make a channel and queue it (blocks while the queue is full)
WorkOnRequest(w) ==
    /\ worker[w].pc = "idle"
    /\ Len(workerQueue) < NumWorkers
    /\ workerQueue' = Append(workerQueue, w)
    /\ worker' = [worker EXCEPT ![w].pc = "waiting"]
    /\ workAsked' = TRUE
    /\ UNCHANGED <<ptrs, retrievals, insertionCount, heap, workerCh,
                   notifiers, holding>>
    /\ UNCHANGED <<requestCount, requestLog, dispatchLog, dispatchPrio,
                   requestAfterWork, lowIssued, highReq, highRetr, highOnHeap,
                   popEmpty, fboVars, fboHist, readVars, dbcVars, fbmVars, mdcVars, mdsVars>>

\* the worker receives the retrieval from its channel and starts the fetch
WorkerReceive(w) ==
    /\ worker[w].pc = "waiting"
    /\ workerCh[w] # <<>>
    /\ worker' = [worker EXCEPT ![w] = [pc |-> "fetching",
                                        br |-> Head(workerCh[w])]]
    /\ workerCh' = [workerCh EXCEPT ![w] = Tail(@)]
    /\ UNCHANGED <<ptrs, retrievals, insertionCount, heap, workerQueue,
                   notifiers, holding>>
    /\ UNCHANGED <<brqHist, fboVars, fboHist, readVars, dbcVars, fbmVars, mdcVars, mdsVars>>

\* FinalizeRequest(ptr): delete(brq.ptrs, ptr), then the results are delivered
FinalizeRequest(w) ==
    /\ worker[w].pc = "fetching"
    /\ LET ptr == retrievals[worker[w].br].blockPtr
       IN  /\ ptrs' = MapDel(ptrs, ptr)
           /\ requestLog' = [requestLog EXCEPT ![ptr] = <<>>]
    /\ worker' = [worker EXCEPT ![w] = [pc |-> "idle", br |-> -1]]
    /\ UNCHANGED <<retrievals, insertionCount, heap, workerQueue, workerCh,
                   notifiers, holding>>
    /\ UNCHANGED <<requestCount, dispatchLog, dispatchPrio, workAsked,
                   requestAfterWork, lowIssued, highReq, highRetr, highOnHeap,
                   popEmpty, fboVars, fboHist, readVars, dbcVars, fbmVars, mdcVars, mdsVars>>

(***************************************************************************)
(* folderBlockOps: bounds and data.                                        *)
(***************************************************************************)
\* BlockSplitterSimple's maximum block size, in bytes (scaled down)
MaxBlockSize == 2

\* truncateExtendCutoffPoint, in bytes (128 KiB in the source, scaled down
\* with the block size: it stays below the block size)
truncateExtendCutoffPoint == 1

\* config.MaxFileBytes()
MaxFileBytes == 6

\* Write and Truncate calls explored
MaxOps == 3

\* StartSync calls explored
MaxSyncs == 2

\* the files of the folder
Files == {"a"}

\* inputs of Write: <<off, len>>; the bytes written are the number of the
\* call, so that every write is told from the others
WriteRanges == {<<0, 2>>, <<2, 2>>, <<0, 3>>, <<1, 1>>}

\* inputs of Truncate
TruncateSizes == {0, 3, 4, 6}

Zeros_ones(n) == [i \in 1..n |-> 1]

\* n zero bytes: the fill of a hole (line 1032-1034)
Zeros(n) == [i \in 1..n |-> 0]

SetMin(S) == CHOOSE x \in S : \A y \in S : x <= y

\* NewFileBlock(): an empty direct block
NewFileBlock == [IsInd |-> FALSE, Contents |-> <<>>, IPtrs |-> <<>>]

\* IndirectFilePtr{BlockInfo{BlockPointer, EncodedSize}, Off, Holes}
IndirectFilePtr(ptr, enc, off) ==
    [ptr |-> ptr, EncodedSize |-> enc, Off |-> off, Holes |-> FALSE]

(***************************************************************************)
(* dirtyFile: the per-file tracker of dirty block states.  A tracker is    *)
(* the map fileBlockStates: pointer -> state.  sync is the state of the    *)
(* pointer; copied says that a dirty copy made for a writer is in the      *)
(* dirty cache (false for a pointer new to the tracker, and again once the *)
(* pointer is handed to a sync); orphaned as set by setBlockOrphaned.      *)
(***************************************************************************)
NewBlockState == [sync |-> "Dirty", copied |-> FALSE, orphaned |-> FALSE]

BlockStateOf(df, ptr) == IF ptr \in DOMAIN df THEN df[ptr] ELSE NewBlockState

\* setBlockDirty: marks the pointer dirty; needsCaching iff the tracker has
\* no dirty copy for the pointer, isSyncing iff any pointer of the file is
\* Syncing
setBlockDirty(df, ptr) ==
    [df |-> MapPut(df, ptr, [BlockStateOf(df, ptr) EXCEPT !.copied = TRUE]),
     needsCaching |-> ~BlockStateOf(df, ptr).copied,
     isSyncing |-> \E p \in DOMAIN df : df[p].sync = "Syncing"]

\* setBlockNotDirty: the pointer is treated as newly dirtied the next time
setBlockNotDirty(df, ptr) ==
    IF ptr \in DOMAIN df THEN [df EXCEPT ![ptr].copied = FALSE] ELSE df

\* blockNeedsCopy: the block is with a sync and no writer has copied it
blockNeedsCopy(df, ptr) == ptr \in DOMAIN df /\ ~df[ptr].copied

isBlockDirty(df, ptr) == ptr \in DOMAIN df /\ df[ptr].copied

isBlockSyncing(df, ptr) == ptr \in DOMAIN df /\ df[ptr].sync = "Syncing"

setBlockSyncing(df, ptr) ==
    MapPut(df, ptr, [BlockStateOf(df, ptr) EXCEPT !.sync = "Syncing",
                                                  !.copied = FALSE])

\* setBlockSynced: the upload of the block completed
setBlockSynced(df, ptr) ==
    IF ptr \in DOMAIN df THEN [df EXCEPT ![ptr].sync = "Synced"] ELSE df

setBlockOrphaned(df, ptr, orphaned) ==
    IF ptr \in DOMAIN df THEN [df EXCEPT ![ptr].orphaned = orphaned] ELSE df

\* resetSyncingBlocksToDirty: all Syncing blocks revert to Dirty
resetSyncingBlocksToDirty(df) ==
    [p \in DOMAIN df |->
        IF df[p].sync = "Syncing" THEN [df[p] EXCEPT !.sync = "Dirty"]
        ELSE df[p]]

(***************************************************************************)
(* BlockSplitterSimple.                                                    *)
(***************************************************************************)
\* CopyUntilSplit: copies data into the block at off, growing the block up
\* to MaxBlockSize; returns the block and the number of bytes copied
CopyUntilSplit(block, lastBlock, data, off) ==
    LET n == Len(data)
        currLen == Len(block.Contents)
        needMore == currLen < off + n
        clipped == needMore /\ (n + off) > MaxBlockSize
        moreNeeded == IF clipped THEN MaxBlockSize - currLen
                      ELSE (n + off) - currLen
    IN  IF clipped /\ moreNeeded + currLen < off
        THEN [block |-> block, n |-> 0]
        ELSE LET grown == IF needMore
                          THEN block.Contents \o Zeros(moreNeeded)
                          ELSE block.Contents
                 toCopy == IF needMore THEN moreNeeded + currLen - off ELSE n
             IN  IF off > Len(grown)
                 THEN [block |-> [block EXCEPT !.Contents = grown], n |-> 0]
                 ELSE [block |-> [block EXCEPT !.Contents =
                                    [i \in 1..Len(grown) |->
                                        IF i > off /\ i <= off + toCopy
                                        THEN data[i - off] ELSE grown[i]]],
                       n |-> toCopy]

\* CheckSplit: the simple splitter never asks to move bytes between blocks
CheckSplit(block) == 0

(***************************************************************************)
(* Block access.  st is a value of the folder's block state: the caches    *)
(* (bcache stands for the clean cache backed by the server), the trackers, *)
(* unrefCache, deCache, the deferred lists, doDeferWrite, and what the     *)
(* model needs of the rest: the node cache's paths, the committed          *)
(* directory entries and the next block ID.  sameObj holds the pairs       *)
(* <<d, c>> for which dirtyBcache[d] and bcache[c] are one block object;   *)
(* replaced holds the pointers whose dirty cache entry was replaced by     *)
(* another object, or deleted, since the last StartSync.                   *)
(***************************************************************************)
\* DirtyBlockCache.IsDirty
IsDirtyPtr(st, ptr) == ptr \in DOMAIN st.dirtyBcache

\* the block is in the dirty cache, or the clean cache or the server gives
\* it; unfetchable holds the pointers whose fetch fails during the call
HasBlock(st, ptr) ==
    \/ ptr \in DOMAIN st.dirtyBcache
    \/ ptr \in DOMAIN st.bcache /\ ptr \notin st.unfetchable

\* getBlockHelperLocked: the dirty cache first, then the clean cache/server
getBlockHelperLocked(st, ptr) ==
    IF ptr \in DOMAIN st.dirtyBcache THEN st.dirtyBcache[ptr]
    ELSE st.bcache[ptr]

Tracker(st, tail) ==
    IF tail \in DOMAIN st.dirtyFiles THEN st.dirtyFiles[tail] ELSE EmptyMap

\* getFileBlockLocked, blockWrite: is the block handed out as a deep copy?
WriteNeedsCopy(st, tail, ptr) ==
    \/ ~IsDirtyPtr(st, ptr)
    \/ (tail \in DOMAIN st.dirtyFiles /\ blockNeedsCopy(st.dirtyFiles[tail], ptr))

\* a mutation of a block object that sits in the dirty cache under ptr
StoreInPlace(st, ptr, block) ==
    [st EXCEPT !.dirtyBcache = MapPut(@, ptr, block),
               !.bcache = [c \in DOMAIN @ |->
                              IF <<ptr, c>> \in st.sameObj THEN block ELSE @[c]]]

\* the mutation of a block the caller holds: visible in the caches only if
\* the caller holds the cached object
Store(st, ptr, block, inPlace) ==
    IF inPlace THEN StoreInPlace(st, ptr, block) ELSE st

\* DirtyBlockCache.Put: another object takes the place of the cached one
DirtyPut(st, ptr, block) ==
    [st EXCEPT !.dirtyBcache = MapPut(@, ptr, block),
               !.sameObj = {pr \in @ : pr[1] # ptr},
               !.replaced = @ \cup {ptr}]

\* DirtyBlockCache.Delete
DirtyDelete(st, ptr) ==
    [st EXCEPT !.dirtyBcache = IF ptr \in DOMAIN @ THEN MapDel(@, ptr) ELSE @,
               !.sameObj = {pr \in @ : pr[1] # ptr},
               !.replaced = @ \cup {ptr}]

\* the loop body of getFileBlockAtOffsetLocked: the child covering off
NextIndex(iptrs, off) ==
    LET hits == {i \in 1..Len(iptrs) : iptrs[i].Off >= off}
    IN  IF hits = {} THEN Len(iptrs)
        ELSE IF iptrs[SetMin(hits)].Off = off THEN SetMin(hits)
        ELSE SetMin(hits) - 1

\* getFileBlockAtOffsetLocked.  topInPlace: topBlock is the cached object.
\* indexInParent counts from 1; "panic" is the index -1 of the source.
getFileBlockAtOffsetLocked(st, tail, topBlock, topInPlace, off, rtype) ==
    IF ~topBlock.IsInd
    THEN [err |-> "", ptr |-> tail, hasParent |-> FALSE, indexInParent |-> 0,
          block |-> topBlock, inPlace |-> topInPlace,
          nextBlockStartOff |-> -1, startOff |-> 0]
    ELSE LET nextIndex == NextIndex(topBlock.IPtrs, off)
             nextPtr == topBlock.IPtrs[nextIndex]
             fail(e) == [err |-> e, ptr |-> tail, hasParent |-> TRUE,
                         indexInParent |-> nextIndex, block |-> topBlock,
                         inPlace |-> FALSE, nextBlockStartOff |-> -1,
                         startOff |-> 0]
         IN  IF nextIndex = 0 THEN fail("panic")
             ELSE IF ~HasBlock(st, nextPtr.ptr) THEN fail("NoSuchBlock")
             ELSE [err |-> "", ptr |-> nextPtr.ptr, hasParent |-> TRUE,
                   indexInParent |-> nextIndex,
                   block |-> getBlockHelperLocked(st, nextPtr.ptr),
                   inPlace |-> ~(rtype = "write"
                                 /\ WriteNeedsCopy(st, tail, nextPtr.ptr)),
                   nextBlockStartOff |->
                       IF nextIndex # Len(topBlock.IPtrs)
                       THEN topBlock.IPtrs[nextIndex + 1].Off ELSE -1,
                   startOff |-> nextPtr.Off]

\* getDirtyEntryLocked: the entry of the parent block, replaced by the
\* deCache entry for its reference if there is one
getDirtyEntryLocked(st, f) ==
    IF st.dirEntries[f].ptr \in DOMAIN st.deCache
    THEN st.deCache[st.dirEntries[f].ptr] ELSE st.dirEntries[f]

\* getOrCreateDirtyFileLocked
getOrCreateDirtyFileLocked(st, tail) ==
    IF tail \in DOMAIN st.dirtyFiles THEN st
    ELSE [st EXCEPT !.dirtyFiles = MapPut(@, tail, EmptyMap)]

\* cacheBlockIfNotYetDirtyLocked; cached: the block went into the cache
cacheBlockIfNotYetDirtyLocked(st, ptr, tail, block) ==
    LET st1 == getOrCreateDirtyFileLocked(st, tail)
        r == setBlockDirty(st1.dirtyFiles[tail], ptr)
        st2 == [st1 EXCEPT !.dirtyFiles[tail] = r.df,
                           !.doDeferWrite = @ \/ r.isSyncing]
    IN  [st |-> IF r.needsCaching THEN DirtyPut(st2, ptr, block) ELSE st2,
         cached |-> r.needsCaching]

\* getOrCreateSyncInfoLocked
NewSyncInfo(de) ==
    [oldInfo |-> [ptr |-> de.ptr, EncodedSize |-> de.EncodedSize],
     unrefs |-> <<>>, hasBps |-> FALSE, blockStates |-> <<>>, opRefs |-> <<>>]

getOrCreateSyncInfoLocked(st, de) ==
    IF de.ptr \in DOMAIN st.unrefCache THEN st
    ELSE [st EXCEPT !.unrefCache = MapPut(@, de.ptr, NewSyncInfo(de))]

\* newRightBlockLocked: a new empty block, appended to pblock at off.
\* Returns the state, pblock and whether pblock is (now) the cached object.
newRightBlockLocked(st, tail, pblock, pInPlace, off) ==
    LET newPtr == st.nextID
        pblock1 == [pblock EXCEPT !.IPtrs =
                       Append(@, IndirectFilePtr(newPtr, 0, off))]
        st1 == Store([st EXCEPT !.nextID = @ + 1], tail, pblock1, pInPlace)
        c1 == cacheBlockIfNotYetDirtyLocked(st1, newPtr, tail, NewFileBlock)
        c2 == cacheBlockIfNotYetDirtyLocked(c1.st, tail, tail, pblock1)
    IN  [st |-> c2.st, pblock |-> pblock1, pInPlace |-> pInPlace \/ c2.cached,
         newPtr |-> newPtr]

\* createIndirectBlockLocked: the new top block takes the file's pointer and
\* the old block gets a new ID
createIndirectBlockLocked(st, tail) ==
    LET newID == st.nextID
        fblock == [IsInd |-> TRUE, Contents |-> <<>>,
                   IPtrs |-> <<IndirectFilePtr(newID, 0, 0)>>]
        st1 == getOrCreateDirtyFileLocked([st EXCEPT !.nextID = @ + 1], tail)
        st2 == [st1 EXCEPT !.dirtyFiles[tail] = setBlockNotDirty(@, tail)]
        c == cacheBlockIfNotYetDirtyLocked(st2, tail, tail, fblock)
    IN  [st |-> c.st, fblock |-> fblock, inPlace |-> c.cached, newID |-> newID]

(***************************************************************************)
(* writeDataLocked.  The loop state L holds the block state, the caller's  *)
(* top block (fblock) and whether it is the cached object, the bytes       *)
(* copied, the dirtied pointers, the dirty entry and the error.  One pass  *)
(* of the loop is a chain of steps; W holds what a pass has so far: the    *)
(* state, the top block, whether it is the cached object, the pointer of   *)
(* the block written and whether the pass made the file indirect.          *)
(* A "panic" or a loop that never ends is an error the actions treat as a  *)
(* call that does not return.                                              *)
(***************************************************************************)
\* line 1273-1276: the appended pointer moves to the place after index idx
PushIPtrsRight(iptrs, idx) ==
    LET n == Len(iptrs)
    IN  SubSeq(iptrs, 1, idx) \o <<iptrs[n]>> \o SubSeq(iptrs, idx + 1, n - 1)

\* a change of the top block the pass holds reaches the cache if the pass
\* holds the cached object
StoreTop(W, tail) == [W EXCEPT !.st = Store(W.st, tail, W.fblock, W.top)]

\* line 1298-1304: the written block is cached; the pass is done
writeIterDone(L, g, nCopied, de, W, c) ==
    [st |-> c.st,
     fblock |-> W.fblock,
     topInPlace |-> IF g.hasParent \/ W.mkInd THEN W.top
                    ELSE W.top \/ c.cached,
     nCopied |-> nCopied,
     dirtyPtrs |-> Append(L.dirtyPtrs, W.ptr),
     de |-> de,
     err |-> ""]

\* line 1288-1296: the parent's pointer to the written block is unreferenced
writeParent(L, tail, g, block, nCopied, de, W) ==
    IF g.hasParent
    THEN StoreTop([W EXCEPT
                     !.fblock.IPtrs[g.indexInParent].EncodedSize = 0,
                     !.st.unrefCache[L.de.ptr].unrefs =
                         Append(@, [ptr |-> W.fblock.IPtrs[g.indexInParent].ptr,
                                    EncodedSize |->
                                      W.fblock.IPtrs[g.indexInParent].EncodedSize])],
                  tail)
    ELSE W

writeCache(L, tail, g, block, nCopied, de, W) ==
    writeIterDone(L, g, nCopied, de, W,
                  cacheBlockIfNotYetDirtyLocked(W.st, W.ptr, tail, block))

\* line 1279-1286: the entry grows with the last block
writeEntry(L, tail, g, block, nCopied, W) ==
    IF Len(g.block.Contents) # Len(block.Contents) /\ g.nextBlockStartOff < 0
    THEN writeCache(L, tail, g, block, nCopied,
             [L.de EXCEPT !.EncodedSize = 0,
                          !.Size = @ + (Len(block.Contents)
                                        - Len(g.block.Contents))],
             writeParent(L, tail, g, block, nCopied, L.de,
                 [W EXCEPT !.st.deCache =
                     MapPut(@, tail,
                            [L.de EXCEPT
                               !.EncodedSize = 0,
                               !.Size = @ + (Len(block.Contents)
                                             - Len(g.block.Contents))])]))
    ELSE writeCache(L, tail, g, block, nCopied, L.de,
                    writeParent(L, tail, g, block, nCopied, L.de, W))

\* line 1264-1277: the new block is in the top block, pushed to its place
writeNewBlockDone(L, tail, g, block, nCopied, W, needInsert, nr) ==
    writeEntry(L, tail, g, block, nCopied,
        StoreTop([W EXCEPT
                    !.st = nr.st,
                    !.top = nr.pInPlace,
                    !.fblock = IF needInsert
                               THEN [nr.pblock EXCEPT !.IPtrs =
                                        PushIPtrsRight(@, g.indexInParent)]
                               ELSE nr.pblock],
                 tail))

\* line 1243 and 1264: is a new block needed, at the end or in between?
writeNewBlock(L, tail, data, off, g, block, nCopied, W) ==
    IF nCopied < Len(data)
       /\ (g.nextBlockStartOff < 0 \/ off + nCopied < g.nextBlockStartOff)
    THEN writeNewBlockDone(L, tail, g, block, nCopied, W,
             g.nextBlockStartOff >= 0,
             newRightBlockLocked(W.st, tail, W.fblock, W.top,
                                 g.startOff + Len(block.Contents)))
    ELSE writeEntry(L, tail, g, block, nCopied, W)

\* line 1246-1254: the direct file becomes indirect
writeMadeIndirect(L, tail, data, off, g, block, nCopied, ci) ==
    writeNewBlock(L, tail, data, off, g, block, nCopied,
                  [st |-> ci.st, fblock |-> ci.fblock, top |-> ci.inPlace,
                   ptr |-> ci.newID, mkInd |-> TRUE])

\* line 1236-1262: the bytes are in the block
writeCopied(L, tail, data, off, g, block, nCopied, st1) ==
    IF nCopied < Len(data) /\ g.nextBlockStartOff < 0 /\ g.ptr = tail
    THEN writeMadeIndirect(L, tail, data, off, g, block, nCopied,
                           createIndirectBlockLocked(st1, tail))
    ELSE writeNewBlock(L, tail, data, off, g, block, nCopied,
                       [st |-> st1,
                        fblock |-> IF g.hasParent THEN L.fblock ELSE block,
                        top |-> L.topInPlace, ptr |-> g.ptr,
                        mkInd |-> FALSE])

writeSplit(L, tail, data, off, g, c) ==
    writeCopied(L, tail, data, off, g, c.block, L.nCopied + c.n,
                Store(L.st, g.ptr, c.block, g.inPlace))

\* line 1227-1234: how much of data goes up to the next block
WriteMax(g, n, off) ==
    IF g.nextBlockStartOff > 0 /\ g.nextBlockStartOff - off < n
    THEN g.nextBlockStartOff - off ELSE n

writeBlock(L, tail, data, off, g) ==
    IF g.err # "" THEN [L EXCEPT !.err = g.err]
    ELSE IF WriteMax(g, Len(data), off) < L.nCopied
    THEN [L EXCEPT !.err = "panic"]
    ELSE writeSplit(L, tail, data, off, g,
             CopyUntilSplit(g.block, g.nextBlockStartOff < 0,
                            SubSeq(data, L.nCopied + 1,
                                   WriteMax(g, Len(data), off)),
                            off + L.nCopied - g.startOff))

\* one pass of the loop of writeDataLocked (line 1221-1305)
writeDataIter(L, tail, data, off) ==
    writeBlock(L, tail, data, off,
               getFileBlockAtOffsetLocked(L.st, tail, L.fblock, L.topInPlace,
                                          off + L.nCopied, "write"))

RECURSIVE writeDataLoop(_, _, _, _, _)
writeDataLoop(L, tail, data, off, fuel) ==
    IF L.err # "" \/ L.nCopied >= Len(data) THEN L
    ELSE IF fuel = 0 THEN [L EXCEPT !.err = "diverged"]
    ELSE writeDataLoop(writeDataIter(L, tail, data, off), tail, data, off,
                       fuel - 1)

\* line 1199-1219: the file's block, its entry and its sync info
writeDataStart(st, f, tail) ==
    [st |-> getOrCreateSyncInfoLocked(getOrCreateDirtyFileLocked(st, tail),
                                      getDirtyEntryLocked(st, f)),
     fblock |-> getBlockHelperLocked(st, tail),
     topInPlace |-> ~WriteNeedsCopy(st, tail, tail),
     nCopied |-> 0, dirtyPtrs |-> <<>>, de |-> getDirtyEntryLocked(st, f),
     err |-> ""]

\* line 1307-1327: an indirect top block is dirty as well
writeDataEnd(L, tail) ==
    IF L.err # "" THEN [st |-> L.st, err |-> L.err, dirtyPtrs |-> <<>>]
    ELSE IF L.fblock.IsInd
    THEN [st |-> cacheBlockIfNotYetDirtyLocked(L.st, tail, tail, L.fblock).st,
          err |-> "", dirtyPtrs |-> Append(L.dirtyPtrs, tail)]
    ELSE [st |-> L.st, err |-> "", dirtyPtrs |-> L.dirtyPtrs]

\* writeDataLocked(file, data, off): the state, the error, the dirtied
\* pointers
writeDataLocked(st, f, data, off) ==
    IF off + Len(data) > MaxFileBytes
    THEN [st |-> st, err |-> "FileTooBig", dirtyPtrs |-> <<>>]
    ELSE IF ~HasBlock(st, st.nodePath[f])
    THEN [st |-> st, err |-> "NoSuchBlock", dirtyPtrs |-> <<>>]
    ELSE writeDataEnd(writeDataLoop(writeDataStart(st, f, st.nodePath[f]),
                                    st.nodePath[f], data, off,
                                    2 * Len(data) + 2),
                      st.nodePath[f])

\* line 1370-1398 of Write and line 1358-1360; line 1653-1675 and 1639-1641
\* of Truncate: the deferral w of an operation whose result is r
Deferral(r, w) ==
    [r.st EXCEPT
        !.doDeferWrite = FALSE,
        !.deferredDirtyDeletes =
            IF r.err = "" /\ r.st.doDeferWrite THEN @ \o r.dirtyPtrs ELSE @,
        !.deferredWrites =
            IF r.err = "" /\ r.st.doDeferWrite THEN Append(@, w) ELSE @]

WriteResult(r, w) ==
    [st |-> Deferral(r, w), err |-> r.err,
     deferred |-> r.err = "" /\ r.st.doDeferWrite]

WriteFile_short(st, f, data, off) ==
    WriteResult(writeDataLocked(st, f, SubSeq(data, 1, Len(data) - 1), off),
                [kind |-> "Write", filePath |-> st.nodePath[f],
                 data |-> data, off |-> off, size |-> 0])

\* Write(file, data, off), under blockLock
WriteFile(st, f, data, off) ==
    WriteResult(writeDataLocked(st, f, data, off),
                [kind |-> "Write", filePath |-> st.nodePath[f],
                 data |-> data, off |-> off, size |-> 0])

(***************************************************************************)
(* Truncate.  W holds the state, the top block and whether the caller      *)
(* holds the cached object of it.                                          *)
(***************************************************************************)
AllHoles(block) ==
    [block EXCEPT !.IPtrs = [i \in 1..Len(@) |-> [@[i] EXCEPT !.Holes = TRUE]]]

\* line 1477-1493: the top block is dirty; the pointers dirtied
extendDone(dirty1, newPtr, tail, c) ==
    [st |-> c.st, err |-> "", dirtyPtrs |-> dirty1 \o <<newPtr, tail>>]

\* line 1451-1476: the entry gets the new size, every pointer its hole flag
extendEntry(f, tail, size, dirty1, nr) ==
    extendDone(dirty1, nr.newPtr, tail,
        cacheBlockIfNotYetDirtyLocked(
            Store([getOrCreateSyncInfoLocked(nr.st,
                                             getDirtyEntryLocked(nr.st, f))
                      EXCEPT !.deCache =
                          MapPut(@, tail,
                                 [getDirtyEntryLocked(nr.st, f) EXCEPT
                                     !.EncodedSize = 0, !.Size = size])],
                  tail, AllHoles(nr.pblock), nr.pInPlace),
            tail, tail, AllHoles(nr.pblock)))

\* line 1445-1450: the new empty block at offset size
extendRight(f, tail, size, st, fblock, topInPlace, dirty1) ==
    extendEntry(f, tail, size, dirty1,
                newRightBlockLocked(st, tail, fblock, topInPlace, size))

\* line 1424-1443: a direct file becomes indirect; its block gets a new ID
extendMadeIndirect(f, tail, size, old, ci) ==
    extendRight(f, tail, size,
        cacheBlockIfNotYetDirtyLocked(
            Store(ci.st, tail, AllHoles(ci.fblock), ci.inPlace),
            ci.newID, tail, old).st,
        AllHoles(ci.fblock), ci.inPlace, <<ci.newID>>)

\* truncateExtendLocked: extends the file to size with a hole
truncateExtendLocked(st, f, size) ==
    IF size > MaxFileBytes
    THEN [st |-> st, err |-> "FileTooBig", dirtyPtrs |-> <<>>]
    ELSE IF ~HasBlock(st, st.nodePath[f])
    THEN [st |-> st, err |-> "NoSuchBlock", dirtyPtrs |-> <<>>]
    ELSE IF ~getBlockHelperLocked(st, st.nodePath[f]).IsInd
    THEN extendMadeIndirect(f, st.nodePath[f], size,
             getBlockHelperLocked(st, st.nodePath[f]),
             createIndirectBlockLocked(st, st.nodePath[f]))
    ELSE extendRight(f, st.nodePath[f], size, st,
                     getBlockHelperLocked(st, st.nodePath[f]),
                     ~WriteNeedsCopy(st, st.nodePath[f], st.nodePath[f]),
                     <<>>)

\* the same W with the result c of caching its top block
TopCached(W, c) == [W EXCEPT !.st = c.st, !.top = @ \/ c.cached]

\* line 1596-1605: the entry gets the new size, the cut block is dirty
shrinkEntry(tail, size, g, block, de, W) ==
    [st |-> cacheBlockIfNotYetDirtyLocked(
                [W.st EXCEPT !.deCache =
                    MapPut(@, tail, [de EXCEPT !.EncodedSize = 0,
                                               !.Size = size])],
                g.ptr, tail, block).st,
     err |-> "", dirtyPtrs |-> <<>>]

\* line 1586-1594: the parent's pointer to the cut block is unreferenced
shrinkParent(tail, size, g, block, de, W) ==
    shrinkEntry(tail, size, g, block, de,
        IF g.hasParent
        THEN StoreTop([W EXCEPT
                         !.fblock.IPtrs[g.indexInParent].EncodedSize = 0,
                         !.st.unrefCache[de.ptr].unrefs =
                             Append(@, [ptr |-> W.fblock.IPtrs[g.indexInParent].ptr,
                                        EncodedSize |->
                                          W.fblock.IPtrs[g.indexInParent].EncodedSize])],
                      tail)
        ELSE W)

\* line 1578-1584: an indirect top block is dirty
shrinkTop(tail, size, g, block, de, W) ==
    shrinkParent(tail, size, g, block, de,
        IF W.fblock.IsInd
        THEN TopCached(W, cacheBlockIfNotYetDirtyLocked(W.st, tail, tail,
                                                        W.fblock))
        ELSE W)

\* the pointers after index idx as unreferenced block infos
DroppedInfos(iptrs, idx) ==
    [i \in 1..(Len(iptrs) - idx) |->
        [ptr |-> iptrs[idx + i].ptr, EncodedSize |-> iptrs[idx + i].EncodedSize]]

\* line 1553-1576: the blocks after the cut one are dropped
shrinkCut(tail, size, g, block, de, W) ==
    shrinkTop(tail, size, g, block, de,
        IF g.nextBlockStartOff > 0
        THEN TopCached(
                 [W EXCEPT !.fblock.IPtrs = SubSeq(@, 1, g.indexInParent)],
                 cacheBlockIfNotYetDirtyLocked(
                     [Store(W.st, tail,
                            [W.fblock EXCEPT
                                !.IPtrs = SubSeq(@, 1, g.indexInParent)],
                            W.top)
                         EXCEPT !.unrefCache[de.ptr].unrefs =
                             @ \o DroppedInfos(W.fblock.IPtrs,
                                               g.indexInParent)],
                     tail, tail,
                     [W.fblock EXCEPT
                         !.IPtrs = SubSeq(@, 1, g.indexInParent)]))
        ELSE W)

\* line 1537-1551 of truncateLocked: the file ends inside block g
shrinkBlock(st, tail, size, fblock, topInPlace, g, block, de) ==
    shrinkCut(tail, size, g, block, de,
        [st |-> getOrCreateSyncInfoLocked(
                    getOrCreateDirtyFileLocked(
                        Store(st, g.ptr, block, g.inPlace), tail), de),
         fblock |-> IF g.hasParent THEN fblock ELSE block,
         top |-> topInPlace])

truncateShrink(st, f, size, fblock, topInPlace, g) ==
    shrinkBlock(st, st.nodePath[f], size, fblock, topInPlace, g,
                [g.block EXCEPT !.Contents = SubSeq(@, 1, size - g.startOff)],
                getDirtyEntryLocked(st, f))

WithNoop(r, noop) ==
    [st |-> r.st, err |-> r.err, dirtyPtrs |-> r.dirtyPtrs, noop |-> noop]

\* line 1515: the length of the file up to the end of block g
CurrLen(g) == g.startOff + Len(g.block.Contents)

\* line 1515-1535 of truncateLocked: extend, grow, nothing or shrink
truncateAt(st, f, size, fblock, topInPlace, g) ==
    IF g.err # ""
    THEN [st |-> st, err |-> "panic", dirtyPtrs |-> <<>>, noop |-> FALSE]
    ELSE IF CurrLen(g) + truncateExtendCutoffPoint < size
    THEN WithNoop(truncateExtendLocked(st, f, size), FALSE)
    ELSE IF CurrLen(g) < size
    THEN WithNoop(writeDataLocked(st, f, Zeros(size - CurrLen(g)), CurrLen(g)),
                  FALSE)
    ELSE IF CurrLen(g) = size /\ g.nextBlockStartOff < 0
    THEN [st |-> st, err |-> "", dirtyPtrs |-> <<>>, noop |-> TRUE]
    ELSE WithNoop(truncateShrink(st, f, size, fblock, topInPlace, g), FALSE)

truncateTop(st, f, size, fblock, topInPlace) ==
    truncateAt(st, f, size, fblock, topInPlace,
               getFileBlockAtOffsetLocked(st, st.nodePath[f], fblock,
                                          topInPlace, size, "write"))

\* truncateLocked(file, size); noop: the early return for the same size
truncateLocked(st, f, size) ==
    IF ~HasBlock(st, st.nodePath[f])
    THEN [st |-> st, err |-> "NoSuchBlock", dirtyPtrs |-> <<>>,
          noop |-> FALSE]
    ELSE truncateTop(st, f, size, getBlockHelperLocked(st, st.nodePath[f]),
                     ~WriteNeedsCopy(st, st.nodePath[f], st.nodePath[f]))

TruncateResult(r, w) ==
    [st |-> Deferral(r, w), err |-> r.err,
     deferred |-> r.err = "" /\ r.st.doDeferWrite, noop |-> r.noop]

\* Truncate(file, size), under blockLock
TruncateFile(st, f, size) ==
    TruncateResult(truncateLocked(st, f, size),
                   [kind |-> "Truncate", filePath |-> st.nodePath[f],
                    data |-> <<>>, off |-> 0, size |-> size])

(***************************************************************************)
(* Read.                                                                   *)
(***************************************************************************)
\* the loop of Read (line 1002-1048): R holds the bytes read and the error
RECURSIVE readLoop(_, _, _, _, _, _)
readLoop(st, tail, fblock, n, off, R) ==
    IF R.err # "" \/ R.done \/ Len(R.data) >= n THEN R
    ELSE
    LET nRead == Len(R.data)
        nextByte == nRead + off
        g == getFileBlockAtOffsetLocked(st, tail, fblock, TRUE, nextByte,
                                        "read")
        lastByteInBlock == g.startOff + Len(g.block.Contents)
        fill0 == g.nextBlockStartOff - nextByte
        fill == IF fill0 > n - nRead THEN n - nRead ELSE fill0
        toRead == IF n - nRead > lastByteInBlock - nextByte
                  THEN lastByteInBlock - nextByte ELSE n - nRead
        first == nextByte - g.startOff
    IN  IF g.err # ""
        THEN [data |-> <<>>, err |-> g.err, done |-> TRUE, part |-> R.data,
              want |-> IF g.hasParent THEN fblock.IPtrs[g.indexInParent].ptr
                       ELSE tail]
        ELSE IF nextByte >= lastByteInBlock
        THEN IF g.nextBlockStartOff > 0
             THEN IF fill <= 0
                  THEN [R EXCEPT !.err = "BadSplit"]
                  ELSE readLoop(st, tail, fblock, n, off,
                                [R EXCEPT !.data = @ \o Zeros(fill)])
             ELSE [R EXCEPT !.done = TRUE]
        ELSE readLoop(st, tail, fblock, n, off,
                      [R EXCEPT !.data = @ \o SubSeq(g.block.Contents,
                                                     first + 1, first + toRead)])

\* nothing read yet; on an error part holds the bytes read before it and
\* want the pointer whose block could not be had
NoRead == [data |-> <<>>, err |-> "", done |-> FALSE, part |-> <<>>, want |-> 0]

\* Read(file, dest, off) with len(dest) = n: the bytes read and the error
ReadFile(st, f, n, off) ==
    IF ~HasBlock(st, st.nodePath[f])
    THEN [NoRead EXCEPT !.err = "NoSuchBlock", !.done = TRUE,
                        !.want = st.nodePath[f]]
    ELSE readLoop(st, st.nodePath[f],
                  getBlockHelperLocked(st, st.nodePath[f]), n, off, NoRead)

\* a Read call: idle, waiting for a block from the server without the block
\* lock (fetching), or returned (done).  fblock is the top block it started
\* from, part the bytes read so far, want the pointer it fetches,
\* dirtyAtStart the dirty pointers when it started.
NoReader ==
    [pc |-> "idle", f |-> "a", tail |-> 0, off |-> 0, n |-> 0,
     fblock |-> NewFileBlock, part |-> <<>>, want |-> 0, dirtyAtStart |-> {},
     data |-> <<>>, err |-> "", waited |-> FALSE, lost |-> {}]

(***************************************************************************)
(* Sync: StartSync, CleanupSyncState, FinishSync.                          *)
(* A fileSyncState is the record                                           *)
(*   active      a sync of the file is between StartSync and its end       *)
(*   tail        the file's pointer at StartSync                           *)
(*   hasFblock   fblock and savedFblock are non-nil                        *)
(*   fblockCached  fblock was the dirty cache's object at StartSync        *)
(*   fblock      the top block StartSync returned                          *)
(*   savedFblock, redirtyOnRecoverableError, hasSi, savedSi,               *)
(*   oldFileBlockPtrs, newIndirectFileBlockPtrs  as in the source          *)
(*   lbc         the directory entry of makeLocalBcache (hasLbc if any)    *)
(*   uploaded    the block states of bps the caller has put                *)
(*   wrote       a Write or Truncate was deferred during the sync          *)
(***************************************************************************)
NoDirEntry == [ptr |-> 0, EncodedSize |-> 0, Size |-> 0]

NoSyncInfo == NewSyncInfo(NoDirEntry)

NoSync ==
    [active |-> FALSE, tail |-> 0, hasFblock |-> FALSE, fblockCached |-> FALSE,
     fblock |-> NewFileBlock, savedFblock |-> NewFileBlock,
     redirtyOnRecoverableError |-> EmptyMap, hasSi |-> FALSE,
     savedSi |-> NoSyncInfo, oldFileBlockPtrs |-> <<>>,
     newIndirectFileBlockPtrs |-> <<>>, hasLbc |-> FALSE, lbc |-> NoDirEntry,
     uploaded |-> {}, wrote |-> FALSE]

\* what Ready gives for the encoded size of a block
ReadyEncodedSize == 1

\* line 2001-2045: ready the dirty children of the top block, from index i.
\* S holds the state, the top block, the sync state and the error.
RECURSIVE readyChildren(_, _, _, _)
readyChildren(S, tail, topInPlace, i) ==
    IF S.err # "" \/ i > Len(S.fblock.IPtrs) THEN S
    ELSE
    LET st == S.st
        ptr == S.fblock.IPtrs[i]
        localPtr == ptr.ptr
        g == getFileBlockAtOffsetLocked(st, tail, S.fblock, topInPlace,
                                        ptr.Off, "write")
        newPtr == st.nextID
        fblock1 == [S.fblock EXCEPT !.IPtrs[i].ptr = newPtr,
                                    !.IPtrs[i].EncodedSize = ReadyEncodedSize]
        st1 == [st EXCEPT
                  !.nextID = @ + 1,
                  !.bcache = MapPut(@, newPtr, g.block),
                  !.sameObj = IF g.inPlace THEN @ \cup {<<g.ptr, newPtr>>}
                              ELSE @,
                  !.dirtyFiles[tail] =
                      setBlockSyncing(setBlockOrphaned(@, localPtr, TRUE),
                                      localPtr),
                  !.unrefCache[tail].opRefs = Append(@, newPtr),
                  !.unrefCache[tail].blockStates =
                      Append(@, [blockPtr |-> newPtr, oldPtr |-> localPtr])]
        sy1 == [S.sync EXCEPT
                  !.newIndirectFileBlockPtrs = Append(@, newPtr),
                  !.oldFileBlockPtrs = Append(@, localPtr),
                  !.redirtyOnRecoverableError = MapPut(@, newPtr, localPtr)]
    IN  IF ~IsDirtyPtr(st, localPtr)
        THEN readyChildren(S, tail, topInPlace, i + 1)
        ELSE IF ptr.EncodedSize > 0
        THEN [S EXCEPT !.err = "InconsistentEncodedSize"]
        ELSE IF g.err # "" THEN [S EXCEPT !.err = g.err]
        ELSE readyChildren([st |-> Store(st1, tail, fblock1, topInPlace),
                            fblock |-> fblock1, sync |-> sy1, err |-> ""],
                           tail, topInPlace, i + 1)

\* line 1910-1999 with a splitter that never splits: the checks remain
SplitCheckFails(st, tail, fblock, i) ==
    /\ IsDirtyPtr(st, fblock.IPtrs[i].ptr)
    /\ \/ fblock.IPtrs[i].EncodedSize > 0
       \/ getFileBlockAtOffsetLocked(st, tail, fblock, TRUE,
                                     fblock.IPtrs[i].Off, "write").err # ""

SplitCheckErr(st, tail, fblock) ==
    LET bad == {i \in 1..Len(fblock.IPtrs) :
                   SplitCheckFails(st, tail, fblock, i)}
    IN  IF bad = {} THEN ""
        ELSE IF fblock.IPtrs[SetMin(bad)].EncodedSize > 0
        THEN "InconsistentEncodedSize"
        ELSE getFileBlockAtOffsetLocked(st, tail, fblock, TRUE,
                 fblock.IPtrs[SetMin(bad)].Off, "write").err

\* line 2048-2055 and makeLocalBcache: the top block is Syncing; the entry
\* of the local block cache
startSyncDone(tail, si, S) ==
    IF S.err # "" THEN S
    ELSE [st |-> [S.st EXCEPT !.dirtyFiles[tail] = setBlockSyncing(@, tail),
                              !.replaced = {}],
          fblock |-> S.fblock,
          sync |-> [S.sync EXCEPT
                      !.oldFileBlockPtrs = Append(@, tail),
                      !.fblock = S.fblock,
                      !.hasLbc = tail \in DOMAIN S.st.deCache,
                      !.lbc = IF tail \in DOMAIN S.st.deCache
                              THEN [S.st.deCache[tail] EXCEPT
                                      !.EncodedSize = si.oldInfo.EncodedSize]
                              ELSE @],
          err |-> ""]

\* line 1905-2046: the children of an indirect top block
startSyncChildren(tail, fblock, topInPlace, si, S) ==
    IF ~fblock.IsInd THEN startSyncDone(tail, si, S)
    ELSE IF SplitCheckErr(S.st, tail, fblock) # ""
    THEN [S EXCEPT !.err = SplitCheckErr(S.st, tail, fblock)]
    ELSE startSyncDone(tail, si, readyChildren(S, tail, topInPlace, 1))

\* line 1850-1889: the sync state is filled in, bps is there
startSyncTop(st, tail, fblock, topInPlace, si) ==
    startSyncChildren(tail, fblock, topInPlace, si,
        [st |-> getOrCreateDirtyFileLocked(
                    [st EXCEPT !.unrefCache[tail].hasBps = TRUE], tail),
         fblock |-> fblock,
         sync |-> [NoSync EXCEPT
                     !.active = TRUE,
                     !.tail = tail,
                     !.hasFblock = fblock.IsInd,
                     !.fblockCached = fblock.IsInd /\ topInPlace,
                     !.savedFblock = IF fblock.IsInd THEN fblock ELSE @,
                     !.hasSi = TRUE,
                     !.savedSi = si,
                     !.newIndirectFileBlockPtrs =
                         IF si.hasBps THEN si.opRefs ELSE <<>>],
         err |-> ""])

StartSyncResult(S) == [st |-> S.st, sync |-> S.sync, err |-> S.err]

\* StartSync(file): startSyncWriteLocked and makeLocalBcache
StartSyncFile(st, f) ==
    IF ~HasBlock(st, st.nodePath[f])
    THEN [st |-> st, err |-> "NoSuchBlock",
          sync |-> [NoSync EXCEPT !.active = TRUE, !.tail = st.nodePath[f]]]
    ELSE IF st.nodePath[f] \notin DOMAIN st.unrefCache
    THEN [st |-> st, err |-> "NoSyncOp",
          sync |-> [NoSync EXCEPT !.active = TRUE, !.tail = st.nodePath[f]]]
    ELSE StartSyncResult(
             startSyncTop(st, st.nodePath[f],
                          getBlockHelperLocked(st, st.nodePath[f]),
                          ~WriteNeedsCopy(st, st.nodePath[f], st.nodePath[f]),
                          st.unrefCache[st.nodePath[f]]))

\* revertSyncInfoAfterRecoverableError.  *si = *savedSi makes si.bps and
\* savedSi.bps one blockPutState, so that si.bps.blockStates = nil empties
\* the list the loop of line 1732 then ranges over.
KeptBlockStates_fromSnapshot(blocksToRemove, savedStates) ==
    SelectSeq(savedStates, LAMBDA bs : bs.blockPtr \notin blocksToRemove)

KeptBlockStates(blocksToRemove, savedStates) ==
    LET sharedStates == <<>>
    IN  SelectSeq(sharedStates, LAMBDA bs : bs.blockPtr \notin blocksToRemove)

revertSyncInfoAfterRecoverableError(blocksToRemove, si, savedSi) ==
    IF ~savedSi.hasBps THEN savedSi
    ELSE [savedSi EXCEPT !.blockStates =
             KeptBlockStates(blocksToRemove, savedSi.blockStates)]

\* line 866-895 of fixChildBlocksAfterRecoverableError for the entries of
\* the redirty map not yet handled
RECURSIVE redirtyChildren(_, _, _, _)
redirtyChildren(st, tail, redirty, todo) ==
    IF todo = {} THEN st
    ELSE
    LET newPtr == SetMin(todo)
        oldPtr == redirty[newPtr]
        fblock == st.dirtyBcache[tail]
        found == \E i \in 1..Len(fblock.IPtrs) : fblock.IPtrs[i].ptr = newPtr
        fblock1 == [fblock EXCEPT !.IPtrs =
                       [i \in 1..Len(@) |->
                           IF @[i].ptr = newPtr
                           THEN [@[i] EXCEPT !.EncodedSize = 0] ELSE @[i]]]
        st1 == StoreInPlace(st, tail, fblock1)
        c == cacheBlockIfNotYetDirtyLocked(st1, newPtr, tail,
                                           st1.bcache[newPtr])
        st2 == IF c.cached
               THEN [c.st EXCEPT !.sameObj = @ \cup {<<newPtr, newPtr>>}]
               ELSE c.st
    IN  IF ~found THEN redirtyChildren(st, tail, redirty, todo \ {newPtr})
        ELSE IF newPtr \notin DOMAIN st1.bcache
        THEN redirtyChildren(st1, tail, redirty, todo \ {newPtr})
        ELSE redirtyChildren(DirtyDelete(st2, oldPtr), tail, redirty,
                             todo \ {newPtr})

\* fixChildBlocksAfterRecoverableError
fixChildBlocksAfterRecoverableError_none(st, tail, redirty) == st

fixChildBlocksAfterRecoverableError(st, tail, redirty) ==
    IF tail \notin DOMAIN st.dirtyFiles THEN st
    ELSE
    LET unorphan(df) ==
            [p \in DOMAIN df |->
                IF \E n \in DOMAIN redirty : redirty[n] = p
                THEN [df[p] EXCEPT !.orphaned = FALSE] ELSE df[p]]
        st1 == [st EXCEPT !.dirtyFiles[tail] = unorphan(@)]
        df == st1.dirtyFiles[tail]
    IN  IF ~isBlockDirty(df, tail) \/ ~isBlockSyncing(df, tail) THEN st1
        ELSE IF tail \notin DOMAIN st1.dirtyBcache THEN st1
        ELSE redirtyChildren(st1, tail, redirty, DOMAIN redirty)

\* CleanupSyncState(file, blocksToRemove, result, err) for err # nil
CleanupSyncStateFile(st, sy, blocksToRemove, recoverable) ==
    LET tail == sy.tail
        hasSi == sy.hasSi /\ tail \in DOMAIN st.unrefCache
        st1 == IF hasSi THEN [st EXCEPT !.unrefCache[tail].opRefs = <<>>]
               ELSE st
        st2 == IF recoverable /\ hasSi
               THEN [st1 EXCEPT !.unrefCache[tail] =
                        revertSyncInfoAfterRecoverableError(
                            blocksToRemove, @, sy.savedSi)]
               ELSE st1
        fblockIsCached == /\ sy.fblockCached
                          /\ tail \notin st.replaced
                          /\ tail \in DOMAIN st.dirtyBcache
        st3 == IF recoverable /\ sy.hasFblock
               THEN fixChildBlocksAfterRecoverableError(
                        Store(st2, tail, sy.savedFblock, fblockIsCached),
                        tail, sy.redirtyOnRecoverableError)
               ELSE st2
    IN  IF tail \in DOMAIN st3.dirtyFiles
        THEN [st3 EXCEPT !.dirtyFiles[tail] = resetSyncingBlocksToDirty(@)]
        ELSE st3

\* clearCacheInfoLocked: finishSync of the tracker drops it
clearCacheInfoLocked_keep(st, tail) == st

clearCacheInfoLocked(st, tail) ==
    [st EXCEPT
       !.deCache = IF tail \in DOMAIN @ THEN MapDel(@, tail) ELSE @,
       !.unrefCache = IF tail \in DOMAIN @ THEN MapDel(@, tail) ELSE @,
       !.dirtyFiles = IF tail \in DOMAIN @ THEN MapDel(@, tail) ELSE @]

RECURSIVE DeleteAll(_, _)
DeleteAll(st, ps) ==
    IF ps = <<>> THEN st
    ELSE DeleteAll(DirtyDelete(st, Head(ps)), Tail(ps))

\* one deferred closure, run under the new path of file f (line 1386-1397
\* for a write, line 1662-1673 for a truncate)
ReplayResult(r) == [st |-> r.st, err |-> r.err]

replayOne(st, f, w) ==
    IF w.kind = "Write"
    THEN ReplayResult(writeDataLocked(
             getOrCreateDirtyFileLocked(st, w.filePath), f, w.data, w.off))
    ELSE ReplayResult(truncateLocked(
             getOrCreateDirtyFileLocked(st, w.filePath), f, w.size))

\* line 2210-2217: the replay stops at the first error
RECURSIVE replayDeferred(_, _, _)
replayRest(f, writes, r) ==
    IF r.err # "" THEN r ELSE replayDeferred(r.st, f, writes)

replayDeferred_skip(st, f, writes) == [st |-> st, err |-> ""]

replayDeferred_goOn(st, f, writes) ==
    IF writes = <<>> THEN [st |-> st, err |-> ""]
    ELSE LET r == replayOne(st, f, Head(writes))
             rest == replayDeferred(r.st, f, Tail(writes))
         IN  IF r.err = "" THEN rest
             ELSE [st |-> rest.st, err |-> r.err]

replayDeferred_reversed(st, f, writes) ==
    IF writes = <<>> THEN [st |-> st, err |-> ""]
    ELSE replayRest(f, SubSeq(writes, 1, Len(writes) - 1),
                    replayOne(st, f, writes[Len(writes)]))

replayDeferred(st, f, writes) ==
    IF writes = <<>> THEN [st |-> st, err |-> ""]
    ELSE replayRest(f, Tail(writes), replayOne(st, f, Head(writes)))

\* line 2219-2232: the cached info of the old path is cleared
finishReplayed(tail, writes, r) ==
    IF r.err # "" THEN [st |-> r.st, err |-> r.err, stillDirty |-> TRUE]
    ELSE [st |-> clearCacheInfoLocked(r.st, tail), err |-> "",
          stillDirty |-> writes # <<>>]

\* line 2194-2217: the deferred lists are taken and emptied, the deferred
\* pointers deleted, the deferred writes replayed
finishDeferred(st, sy, f) ==
    finishReplayed(sy.tail, st.deferredWrites,
        replayDeferred(
            DeleteAll([st EXCEPT !.deferredDirtyDeletes = <<>>,
                                 !.deferredWrites = <<>>],
                      st.deferredDirtyDeletes),
            f, st.deferredWrites))

\* FinishSync(oldPath, newPath): f's path is the new path already
FinishSyncFile(st, sy, f) ==
    finishDeferred(DeleteAll(st, sy.oldFileBlockPtrs), sy, f)

\* The caller of the sync between the uploads and FinishSync: the top block
\* is readied under a new permanent pointer, which becomes the tail of the
\* file's new path, and the directory entry of the local block cache is
\* committed with it.
commitNewPath(st, sy, f) ==
    LET newTail == st.nextID
        de == IF sy.hasLbc THEN sy.lbc ELSE st.dirEntries[f]
    IN  [st EXCEPT
           !.nextID = @ + 1,
           !.bcache = MapPut(@, newTail, sy.fblock),
           !.dirEntries[f] = [ptr |-> newTail,
                              EncodedSize |-> ReadyEncodedSize,
                              Size |-> de.Size],
           !.nodePath[f] = newTail]
(***************************************************************************)
(* The dirty block cache's admission control (spec 4.1).  A Write asks for *)
(* a permit for len(data) bytes before anything else (line 1338).          *)
(***************************************************************************)
\* the dirty-byte budget of the cache, in bytes
DirtyLimit == 8

\* the length of the Write to the other file
OtherLen == 5

NoDirtyBytes == [unsynced |-> 0, waiting |-> 0, other |-> 0]

\* "grants immediately if unsynced + waiting + n <= limit"
PermitGranted(d, n) == d.unsynced + d.waiting + n <= DirtyLimit

\* RequestPermissionToDirty(n): the bytes of the request count as unsynced
\* once the permit is given, as waiting until then
RequestPermissionToDirty(d, n) ==
    IF PermitGranted(d, n)
    THEN [d EXCEPT !.unsynced = @ + n]
    ELSE [d EXCEPT !.waiting = @ + n]

\* UpdateUnsyncedBytes(delta, false)
UpdateUnsyncedBytes(d, delta) == [d EXCEPT !.unsynced = @ + delta]

\* capacity was freed: the withheld permit for n bytes is signalled if the
\* request fits now
SignalPermit(d, n) ==
    IF PermitGranted([d EXCEPT !.waiting = @ - n], n)
    THEN [d EXCEPT !.waiting = @ - n, !.unsynced = @ + n]
    ELSE d

\* a Write call: where it is, its arguments, the blocks of the caches when
\* it asked for its permit, how often it has taken the block lock
\* exclusively, whether its permit was withheld
NoWriter ==
    [pc |-> "idle", f |-> "a", off |-> 0, data |-> <<>>, locks |-> 0,
     waited |-> FALSE, err |-> "",
     blocks |-> [dirtyBcache |-> EmptyMap, bcache |-> EmptyMap]]

(***************************************************************************)
(* folder_block_manager.go: archival of unreferenced blocks, cleanup after *)
(* failed puts and quota reclamation.  Revisions are numbered from 1       *)
(* (MetadataRevisionInitial); 0 is MetadataRevisionUninitialized.          *)
(***************************************************************************)
\* numPointersPerGCThreshold (100 in the source, scaled down)
numPointersPerGCThreshold == 3

\* numMaxRevisionsPerQR (100 in the source, scaled down with the threshold)
numMaxRevisionsPerQR == 3

\* the most revisions of the merged branch that clients write
MaxRevisions == 6

\* the most md writes that end with an error
MaxFailedPuts == 1

\* the most md writes of the unmerged branch
MaxUnmerged == 2

\* the most archive calls that fail
MaxArchiveFailures == 1

\* the clock stops here
MaxClock == 2

\* the most runs of doReclamation
MaxReclamations == 3

\* a RootMetadata: its revision, its merged status, its directory (dir names
\* the write that made it), the pointers its ops unreference, the LatestRev
\* of its gcOp (0: it has none), the mtime of its directory
NewMD(rev, merged, dir, unrefs, gcLatest, mtime) ==
    [Revision |-> rev, merged |-> merged, dir |-> dir, unrefs |-> unrefs,
     gcLatest |-> gcLatest, mtime |-> mtime]

\* the servers of a folder with one revision that unreferenced one block
InitSrv ==
    [merged |-> <<NewMD(1, TRUE, 1, <<1>>, 0, 0)>>,
     unmerged |-> {},
     lockedBy |-> "none",
     archived |-> {},
     deleted |-> {},
     now |-> 0,
     writes |-> 1]

\* newFolderBlockManager; archivedMDs and cleaned are the history of the
\* archive goroutine: the mds it archived, the entries it cleaned up
InitFbm ==
    [archiveChan |-> <<>>,
     blocksToDeleteAfterError |-> {},
     lastQRHeadRev |-> 0,
     lastQROldEnoughRev |-> 0,
     wasLastQRComplete |-> FALSE,
     archivedMDs |-> {},
     cleaned |-> {},
     failedPuts |-> 0,
     archiveFailures |-> 0,
     reclamations |-> 0]

\* no run of doReclamation yet.  log: the calls to the servers in their
\* order; span: the old-enough revisions after the last gcOp the run found;
\* oneEach: each of them unreferences one block
NoQR ==
    [ran |-> FALSE, fault |-> "", err |-> "", log |-> <<>>, ptrs |-> <<>>,
     latestRev |-> 0, complete |-> FALSE, lastGCRev |-> 0, span |-> 0,
     oneEach |-> FALSE, shortened |-> FALSE]

\* no pass of processBlocksToDelete is running.  toDelete: the entries the
\* pass took and has not looked at yet; again: toDeleteAgain; registered:
\* the entries cleanUpBlockState has registered so far; during: those it
\* registered while a pass was running
NoPass ==
    [pc |-> "idle", toDelete |-> {}, again |-> {}, registered |-> {},
     during |-> {}]

\* no call of doChunkedDowngrades is running.  pc: where the caller is;
\* chunks and chunkResults: the buffers of the two channels; sent: the
\* chunks sent so far; closed: chunks is closed; worker: where each worker
\* goroutine is; done: the context of the call is cancelled; received: the
\* results the caller has taken; err and zero: what the call returns
NoDowngrade ==
    [pc |-> "idle", numChunks |-> 0, chunks |-> <<>>, sent |-> 0,
     closed |-> FALSE, chunkResults |-> <<>>, worker |-> <<>>,
     done |-> FALSE, received |-> 0, err |-> "", zero |-> 0]

FbmInitVars ==
    /\ srv = InitSrv
    /\ fbm = InitFbm
    /\ qr = NoQR
    /\ pass = NoPass
    /\ dg = NoDowngrade

\* archiveUnrefBlocks(md)
archiveUnrefBlocks(m, md) ==
    IF ~md.merged THEN m
    ELSE [m EXCEPT !.archiveChan = Append(@, md)]

archiveUnrefBlocksNoWait_unchecked(m, md) ==
    [m EXCEPT !.archiveChan = Append(@, md)]

\* archiveUnrefBlocksNoWait(md): the send may be left to a goroutine, the md
\* is in the channel sooner or later
archiveUnrefBlocksNoWait(m, md) ==
    IF ~md.merged THEN m
    ELSE [m EXCEPT !.archiveChan = Append(@, md)]

\* cleanUpBlockState(md, bps)
cleanUpBlockState(m, md, bps) ==
    [m EXCEPT !.blocksToDeleteAfterError = @ \cup {[md |-> md, ptrs |-> bps]}]

\* getMDRange(id, bid, rev, rev, mStatus): the revision the server holds
\* at that number of that branch, as a set
StoredAt(s, merged, rev) ==
    IF merged
    THEN {s.merged[i] : i \in {j \in 1..Len(s.merged) : j = rev}}
    ELSE {md \in s.unmerged : md.Revision = rev}

\* one entry of processBlocksToDelete (line 337-376); fault is what fails
\* for this entry: "range" (getMDRange), "codec" (CodecEqual), "perm" or
\* "again" (deleteBlockRefs with a permanent or another error), "" (nothing)
CleanEntry(S, e, fault) ==
    LET stored == StoredAt(S.srv, e.md.merged, e.md.Revision)
        rmd == CHOOSE md \in stored : TRUE
        note(deleted) ==
            [md |-> e.md, ptrs |-> e.ptrs, deleteIssued |-> deleted,
             inHistory |-> rmd.dir = e.md.dir, fault |-> fault]
    IN  IF fault = "range" \/ stored = {}
        THEN [S EXCEPT !.again = @ \cup {e}]
        ELSE IF fault # "codec" /\ rmd.dir = e.md.dir
        THEN [S EXCEPT !.fbm = [archiveUnrefBlocksNoWait(@, rmd) EXCEPT
                                   !.cleaned = @ \cup {note(FALSE)}]]
        ELSE [S EXCEPT
                 !.srv.deleted = IF fault \in {"perm", "again"} THEN @
                                 ELSE @ \cup e.ptrs,
                 !.again = IF fault = "again" THEN @ \cup {e} ELSE @,
                 !.fbm.cleaned = @ \cup {note(TRUE)}]

\* the loop of processBlocksToDelete over the entries it took
RECURSIVE CleanEntries(_, _, _)
CleanEntries(S, entries, faults) ==
    IF entries = {} THEN S
    ELSE LET e == CHOOSE x \in entries : TRUE
         IN  CleanEntries(CleanEntry(S, e, faults[e]), entries \ {e}, faults)

\* processBlocksToDelete: the entries are taken out of the map, those to be
\* tried again are put back
processBlocksToDelete(s, m, faults) ==
    LET S == CleanEntries(
                 [srv |-> s,
                  fbm |-> [m EXCEPT !.blocksToDeleteAfterError = {}],
                  again |-> {}],
                 m.blocksToDeleteAfterError, faults)
    IN  [srv |-> S.srv,
         fbm |-> [S.fbm EXCEPT !.blocksToDeleteAfterError = @ \cup S.again]]

\* line 325-331 of processBlocksToDelete, under blocksToDeleteLock: the
\* map is taken and an empty one is left
takeBlocksToDelete(m) == [m EXCEPT !.blocksToDeleteAfterError = {}]

requeueBlocksToDelete_overwrite(m, again) ==
    [m EXCEPT !.blocksToDeleteAfterError = again]

\* line 387-396 of processBlocksToDelete, under blocksToDeleteLock: the
\* entries to be tried again are added to what the map holds by now
requeueBlocksToDelete(m, again) ==
    [m EXCEPT !.blocksToDeleteAfterError = @ \cup again]

\* one md of archiveBlocksInBackground (line 449-483): its unreferenced
\* blocks are archived, then the blocks of failed puts are looked at
archiveBlocks(s, m, md, archiveFails, faults) ==
    IF archiveFails
    THEN [srv |-> s,
          fbm |-> [m EXCEPT !.archiveChan = Tail(@), !.archiveFailures = @ + 1]]
    ELSE processBlocksToDelete(
             [s EXCEPT !.archived = @ \cup {md.unrefs[i] : i \in 1..Len(md.unrefs)}],
             [m EXCEPT !.archiveChan = Tail(@), !.archivedMDs = @ \cup {md}],
             faults)

\* isOldEnough(rmd), with an unref age of zero
isOldEnough(s, rmd) == rmd.mtime < s.now

\* getMostRecentOldEnoughAndGCRevisions(head): the walk backwards from the
\* head, which ends when both revisions are known
RECURSIVE getMostRecentOldEnoughAndGCRevisions(_, _, _, _)
getMostRecentOldEnoughAndGCRevisions(s, i, oldEnough, lastGC) ==
    IF i = 0 \/ (oldEnough # 0 /\ lastGC # 0)
    THEN [mostRecentOldEnoughRev |-> oldEnough, lastGCRev |-> lastGC]
    ELSE getMostRecentOldEnoughAndGCRevisions(
             s, i - 1,
             IF oldEnough = 0 /\ isOldEnough(s, s.merged[i])
             THEN s.merged[i].Revision ELSE oldEnough,
             IF lastGC = 0 THEN s.merged[i].gcLatest ELSE lastGC)

\* the walk of getUnreferencedBlocks (line 617-666) from revision i down to
\* the one after earliestRev: the pointers, and for each revision the
\* position at which its pointers start
RECURSIVE GatherUnrefs(_, _, _, _)
GatherUnrefs(s, i, earliestRev, G) ==
    IF i = 0 \/ i <= earliestRev THEN G
    ELSE GatherUnrefs(
             s, i - 1, earliestRev,
             [ptrs |-> G.ptrs \o (IF s.merged[i].gcLatest # 0 THEN <<>>
                                  ELSE s.merged[i].unrefs),
              revStartPositions |->
                  [r \in DOMAIN G.revStartPositions \cup {i} |->
                      IF r = i THEN Len(G.ptrs) ELSE G.revStartPositions[r]]])

ShortenRange_atThreshold(G, latestRev) ==
    LET threshStart == Len(G.ptrs) - numPointersPerGCThreshold
        revs == {r \in DOMAIN G.revStartPositions :
                    G.revStartPositions[r] < threshStart /\ r < latestRev}
    IN  IF Len(G.ptrs) > numPointersPerGCThreshold /\ revs # {}
        THEN [ptrs |-> SubSeq(G.ptrs, threshStart + 1, Len(G.ptrs)),
              latestRev |-> SetMin(revs), complete |-> FALSE]
        ELSE [ptrs |-> G.ptrs, latestRev |-> latestRev, complete |-> TRUE]

\* line 668-693: with more pointers than the threshold the range ends at
\* the earliest revision that still leaves the threshold
ShortenRange(G, latestRev) ==
    LET threshStart == Len(G.ptrs) - numPointersPerGCThreshold
        revs == {r \in DOMAIN G.revStartPositions :
                    G.revStartPositions[r] < threshStart /\ r < latestRev}
        rev == SetMin(revs)
    IN  IF Len(G.ptrs) > numPointersPerGCThreshold /\ revs # {}
        THEN [ptrs |-> SubSeq(G.ptrs, G.revStartPositions[rev] + 1, Len(G.ptrs)),
              latestRev |-> rev, complete |-> FALSE]
        ELSE [ptrs |-> G.ptrs, latestRev |-> latestRev, complete |-> TRUE]

\* getUnreferencedBlocks(latestRev, earliestRev)
getUnreferencedBlocks(s, latestRev, earliestRev) ==
    IF latestRev <= earliestRev
    THEN [ptrs |-> <<>>, latestRev |-> 0, complete |-> TRUE]
    ELSE ShortenRange(GatherUnrefs(s, latestRev, earliestRev,
                                   [ptrs |-> <<>>,
                                    revStartPositions |-> EmptyMap]),
                      latestRev)

\* isQRNecessary(head)
isQRNecessary(s, m, head) ==
    \/ head.Revision # m.lastQRHeadRev
    \/ ~m.wasLastQRComplete
    \/ m.lastQRHeadRev > m.lastQROldEnoughRev /\ isOldEnough(s, head)

\* finalizeReclamation: the helper writes a revision with the gcOp
finalizeReclamation(s, latestRev) ==
    [s EXCEPT !.merged = Append(@, NewMD(Len(@) + 1, TRUE, s.writes + 1,
                                         <<>>, latestRev, s.now)),
              !.writes = @ + 1]

QRExit_leak(s, m, Q, locked, head, oldEnoughRev) ==
    [srv |-> s,
     fbm |-> IF Q.err = ""
             THEN [m EXCEPT !.lastQRHeadRev = head.Revision,
                            !.lastQROldEnoughRev = oldEnoughRev,
                            !.wasLastQRComplete = Q.complete]
             ELSE m,
     qr |-> IF locked /\ Q.err = "" THEN [Q EXCEPT !.log = Append(@, "unlock")]
            ELSE Q]

\* the deferred functions of doReclamation: TruncateUnlock if the lock was
\* taken (line 787-796), and the memory of a run without error
\* (line 764-771)
QRExit(s, m, Q, locked, head, oldEnoughRev) ==
    [srv |-> IF locked THEN [s EXCEPT !.lockedBy = "none"] ELSE s,
     fbm |-> IF Q.err = ""
             THEN [m EXCEPT !.lastQRHeadRev = head.Revision,
                            !.lastQROldEnoughRev = oldEnoughRev,
                            !.wasLastQRComplete = Q.complete]
             ELSE m,
     qr |-> IF locked THEN [Q EXCEPT !.log = Append(@, "unlock")] ELSE Q]

\* line 827-841 of doReclamation: U is what getUnreferencedBlocks returned
QRDelete(s, m, Q, head, oldEnoughRev, U, fault) ==
    IF fault = "collect"
    THEN QRExit(s, m, [Q EXCEPT !.err = "collect"], TRUE, head, oldEnoughRev)
    ELSE IF Len(U.ptrs) = 0 /\ ~Q.shortened
    THEN QRExit(s, m, [Q EXCEPT !.latestRev = U.latestRev, !.complete = TRUE],
                TRUE, head, oldEnoughRev)
    ELSE IF fault = "delete"
    THEN QRExit(s, m,
                [Q EXCEPT !.ptrs = U.ptrs, !.latestRev = U.latestRev,
                          !.complete = U.complete, !.err = "delete",
                          !.log = Append(@, "delete")],
                TRUE, head, oldEnoughRev)
    ELSE IF fault = "finalize"
    THEN QRExit([s EXCEPT !.deleted =
                     @ \cup {U.ptrs[i] : i \in 1..Len(U.ptrs)}],
                m,
                [Q EXCEPT !.ptrs = U.ptrs, !.latestRev = U.latestRev,
                          !.complete = U.complete, !.err = "finalize",
                          !.log = Append(@, "delete")],
                TRUE, head, oldEnoughRev)
    ELSE QRExit(finalizeReclamation(
                    [s EXCEPT !.deleted =
                        @ \cup {U.ptrs[i] : i \in 1..Len(U.ptrs)}],
                    U.latestRev),
                m,
                [Q EXCEPT !.ptrs = U.ptrs, !.latestRev = U.latestRev,
                          !.complete = U.complete,
                          !.log = @ \o <<"delete", "gcOp">>],
                TRUE, head, oldEnoughRev)

\* line 798-826 of doReclamation, with the truncate lock: W is what
\* getMostRecentOldEnoughAndGCRevisions returned
QRLocked(s, m, Q, head, W, fault) ==
    IF fault = "walk"
    THEN QRExit(s, m, [Q EXCEPT !.err = "walk"], TRUE, head, 0)
    ELSE IF W.mostRecentOldEnoughRev = 0
            \/ W.mostRecentOldEnoughRev <= W.lastGCRev
    THEN QRExit(s, m, [Q EXCEPT !.complete = TRUE, !.lastGCRev = W.lastGCRev],
                TRUE, head, W.mostRecentOldEnoughRev)
    ELSE LET capped ==
                 IF W.mostRecentOldEnoughRev - W.lastGCRev > numMaxRevisionsPerQR
                 THEN W.lastGCRev + numMaxRevisionsPerQR
                 ELSE W.mostRecentOldEnoughRev
         IN  QRDelete(s, m,
                      [Q EXCEPT
                          !.shortened = capped # W.mostRecentOldEnoughRev,
                          !.lastGCRev = W.lastGCRev,
                          !.span = W.mostRecentOldEnoughRev - W.lastGCRev,
                          !.oneEach =
                              \A r \in (W.lastGCRev + 1)..W.mostRecentOldEnoughRev :
                                  /\ Len(s.merged[r].unrefs) = 1
                                  /\ s.merged[r].gcLatest = 0],
                      head, capped,
                      getUnreferencedBlocks(s, capped, W.lastGCRev), fault)

\* doReclamation; fault is the call that fails in this run: "getMD",
\* "lock" (TruncateLock: an error, or another device has the lock), "walk", "collect", "delete", "finalize", "" (none)
doReclamation(s, m, fault) ==
    LET head == s.merged[Len(s.merged)]
        Q == [NoQR EXCEPT !.ran = TRUE, !.fault = fault]
    IN  IF fault = "getMD"
        THEN [srv |-> s, fbm |-> m, qr |-> [Q EXCEPT !.err = "getMD"]]
        ELSE IF ~isQRNecessary(s, m, head)
        THEN [srv |-> s, fbm |-> m, qr |-> Q]
        ELSE IF fault = "lock" \/ s.lockedBy = "other"
        THEN QRExit(s, m, [Q EXCEPT !.err = "lock", !.log = <<"lockFailed">>],
                    FALSE, head, 0)
        ELSE QRLocked([s EXCEPT !.lockedBy = "fbm"], m,
                      [Q EXCEPT !.log = <<"lock">>], head,
                      getMostRecentOldEnoughAndGCRevisions(
                          s, Len(s.merged), 0, 0),
                      fault)


(***************************************************************************)
(* The metadata cache: a bounded LRU keyed by (TlfID, Revision, merged     *)
(* status).  An entry is a key and the RootMetadata object put under it;   *)
(* the sequence is ordered by use, most recently used first.               *)
(***************************************************************************)
\* the capacity of the cache (mdCacheInit(t, 2))
MDCacheCapacity == 2

\* the most calls of the cache
MaxMDCacheCalls == 4

\* the keys of the calls: <<tlf, rev, merged>>
MDKeys == {<<0, 0, TRUE>>, <<1, 0, FALSE>>, <<2, 1, TRUE>>, <<0, 0, FALSE>>}

\* the RootMetadata objects
MDObjects == {1, 2}

MdcInitVars ==
    /\ mdcache = <<>>
    /\ mdLog = <<>>

\* the entries of c without the one of key
WithoutKey(c, key) == SelectSeq(c, LAMBDA e : e.key # key)

\* the first n entries of c
Newest(c, n) == SubSeq(c, 1, IF Len(c) < n THEN Len(c) ELSE n)

MDCachePut_evictNewest(c, key, rmd) ==
    LET rest == WithoutKey(c, key)
    IN  IF Len(rest) < MDCacheCapacity
        THEN <<[key |-> key, rmd |-> rmd]>> \o rest
        ELSE <<[key |-> key, rmd |-> rmd]>> \o Tail(rest)

\* Put(rmd): the entry becomes the most recently used one; beyond the
\* capacity the least recently used entry goes
MDCachePut(c, key, rmd) ==
    Newest(<<[key |-> key, rmd |-> rmd]>> \o WithoutKey(c, key),
           MDCacheCapacity)

\* Get(tlf, rev, merged): a hit makes the entry the most recently used one
MDCacheGet(c, key) ==
    IF \E i \in 1..Len(c) : c[i].key = key
    THEN LET e == c[CHOOSE i \in 1..Len(c) : c[i].key = key]
         IN  [cache |-> <<e>> \o WithoutKey(c, key), rmd |-> e.rmd, err |-> ""]
    ELSE [cache |-> c, rmd |-> 0, err |-> "NoSuchMDError"]

\* config.MDCache().Put(rmd)
MdcPut ==
    /\ Len(mdLog) < MaxMDCacheCalls
    /\ \E key \in MDKeys : \E rmd \in MDObjects :
         /\ mdcache' = MDCachePut(mdcache, key, rmd)
         /\ mdLog' = Append(mdLog, [op |-> "Put", key |-> key, rmd |-> rmd,
                                    err |-> ""])
    /\ UNCHANGED <<brqVars, brqHist, fboVars, fboHist, readVars, dbcVars, fbmVars, mdsVars>>

MdcGetReturns(key, r) ==
    /\ mdcache' = r.cache
    /\ mdLog' = Append(mdLog, [op |-> "Get", key |-> key, rmd |-> r.rmd,
                               err |-> r.err])

\* config.MDCache().Get(tlf, rev, merged)
MdcGet ==
    /\ Len(mdLog) < MaxMDCacheCalls
    /\ \E key \in MDKeys : MdcGetReturns(key, MDCacheGet(mdcache, key))
    /\ UNCHANGED <<brqVars, brqHist, fboVars, fboHist, readVars, dbcVars, fbmVars, mdsVars>>

MdcNext ==
    \/ MdcPut
    \/ MdcGet

(***************************************************************************)
(* mdserver_memory.go: MDServerMemory for one TLF and the devices that     *)
(* share it (copy() shares mdServerMemShared).  md.lock is taken and given *)
(* back by each helper: a Put reads the head under one hold of the lock    *)
(* and appends under a later one.  The devices are readers and writers of  *)
(* the TLF; the codec and the KBPKI do not fail.  A panic of GetRange is   *)
(* the error "panic".                                                     *)
(***************************************************************************)
\* the most calls of the server
MaxMdsCalls == 4

\* the highest revision a client puts
MaxMdsRevision == 3

\* the devices (device KIDs) of the clients
MdsDevices == {"d1", "d2"}

NullBranchID == "null"

\* MakeRandomBranchID of a device
BranchIDOf(c) == IF c = "d1" THEN "b1" ELSE "b2"

errMDServerMemoryShutdown == "errMDServerMemoryShutdown"

\* a RootMetadataSigned: its revision, its merged status, its branch
NewRMDS(rev, merged, bid) == [Revision |-> rev, merged |-> merged, BID |-> bid]

NoRMDS == NewRMDS(0, TRUE, NullBranchID)

\* NewMDServerMemory; nil holds the names of the fields that are nil
InitMds ==
    [mdDb |-> EmptyMap, branchDb |-> EmptyMap, lockedBy |-> "none", nil |-> {}]

NoMdsCall ==
    [op |-> "none", c |-> "d1", err |-> "", merged |-> TRUE, md |-> NoRMDS,
     revs |-> <<>>, successor |-> TRUE, stored |-> FALSE, changed |-> FALSE,
     afterShutdown |-> FALSE]

NoPut == [pc |-> "idle", md |-> NoRMDS, afterShutdown |-> FALSE]

MdsInitVars ==
    /\ mds = InitMds
    /\ mdsPut = [c \in MdsDevices |-> NoPut]
    /\ mdsLast = NoMdsCall
    /\ mdsCalls = 0

\* isShutdown (line 573-577)
isShutdown(s) == "handleDb" \in s.nil

\* getHeadForTLF(id, bid, mStatus), key being the branch of the list
getHeadForTLF(s, key) ==
    IF "mdDb" \in s.nil
    THEN [err |-> errMDServerMemoryShutdown, found |-> FALSE, head |-> NoRMDS]
    ELSE IF key \notin DOMAIN s.mdDb
    THEN [err |-> "", found |-> FALSE, head |-> NoRMDS]
    ELSE [err |-> "", found |-> TRUE,
          head |-> s.mdDb[key].blocks[Len(s.mdDb[key].blocks)]]

\* getBranchID(id) of device c
getBranchID(s, c) ==
    IF "branchDb" \in s.nil
    THEN [err |-> errMDServerMemoryShutdown, bid |-> NullBranchID]
    ELSE [err |-> "",
          bid |-> IF c \in DOMAIN s.branchDb THEN s.branchDb[c]
                  ELSE NullBranchID]

\* checkGetParams(id, bid, mStatus)
checkGetParams(s, c, bid, merged) ==
    IF merged /\ bid # NullBranchID
    THEN [err |-> "MDServerErrorBadRequest", bid |-> NullBranchID]
    ELSE IF getHeadForTLF(s, NullBranchID).err # ""
    THEN [err |-> "MDServerError", bid |-> NullBranchID]
    ELSE IF ~merged /\ bid = NullBranchID THEN getBranchID(s, c)
    ELSE [err |-> "", bid |-> bid]

\* GetForTLF(id, bid, mStatus): the error and the head
GetForTLF(s, c, bid, merged) ==
    LET p == checkGetParams(s, c, bid, merged)
        h == getHeadForTLF(s, p.bid)
    IN  IF p.err # "" THEN [err |-> p.err, found |-> FALSE, head |-> NoRMDS]
        ELSE IF ~merged /\ p.bid = NullBranchID
        THEN [err |-> "", found |-> FALSE, head |-> NoRMDS]
        ELSE IF h.err # ""
        THEN [err |-> "MDServerError", found |-> FALSE, head |-> NoRMDS]
        ELSE h

\* line 274-299 of GetRange: the blocks of the list from start to stop; a
\* block with another revision than its place makes the call panic
RangeOfList(bl, start, stop) ==
    LET startI == IF start - bl.initialRevision < 0 THEN 0
                  ELSE start - bl.initialRevision
        endI == IF stop - bl.initialRevision + 1 > Len(bl.blocks)
                THEN Len(bl.blocks) ELSE stop - bl.initialRevision + 1
    IN  IF \E i \in (startI + 1)..endI :
              bl.blocks[i].Revision # bl.initialRevision + i - 1
        THEN [err |-> "panic", rmdses |-> <<>>]
        ELSE [err |-> "",
              rmdses |-> [i \in 1..(endI - startI) |-> bl.blocks[startI + i]]]

\* GetRange(id, bid, mStatus, start, stop)
GetRange(s, c, bid, merged, start, stop) ==
    LET p == checkGetParams(s, c, bid, merged)
    IN  IF p.err # "" THEN [err |-> p.err, rmdses |-> <<>>]
        ELSE IF ~merged /\ p.bid = NullBranchID
        THEN [err |-> "", rmdses |-> <<>>]
        ELSE IF "mdDb" \in s.nil
        THEN [err |-> errMDServerMemoryShutdown, rmdses |-> <<>>]
        ELSE IF p.bid \notin DOMAIN s.mdDb THEN [err |-> "", rmdses |-> <<>>]
        ELSE RangeOfList(s.mdDb[p.bid], start, stop)

\* CheckValidSuccessorForServer(md) of the head: the revision follows
CheckValidSuccessorForServer(head, md) ==
    IF md.Revision # head.Revision + 1 THEN "MDServerErrorConflictRevision"
    ELSE ""

\* line 366-393 of Put: the consistency check, and the branch of the device
\* is recorded with the first revision of an unmerged history
PutChecked(s, c, md, head, hasHead, recordBranchID) ==
    IF hasHead /\ CheckValidSuccessorForServer(head, md) # ""
    THEN [err |-> CheckValidSuccessorForServer(head, md), s |-> s]
    ELSE IF ~recordBranchID THEN [err |-> "", s |-> s]
    ELSE IF "branchDb" \in s.nil
    THEN [err |-> errMDServerMemoryShutdown, s |-> s]
    ELSE [err |-> "", s |-> [s EXCEPT !.branchDb = MapPut(@, c, md.BID)]]

\* line 351-364 of Put: the head of an unmerged history without revisions is
\* the merged revision before
PutOnMaster(s, c, md, r) ==
    IF r.err # "" \/ Len(r.rmdses) # 1 THEN [err |-> "MDServerError", s |-> s]
    ELSE PutChecked(s, c, md, r.rmdses[1], TRUE, TRUE)

\* line 319-393 of Put: all that comes before the block is stored
PutBegin(s, c, md) ==
    IF md.merged # (md.BID = NullBranchID)
    THEN [err |-> "MDServerErrorBadRequest", s |-> s]
    ELSE IF getHeadForTLF(s, NullBranchID).err # ""
            \/ getHeadForTLF(s, md.BID).err # ""
    THEN [err |-> "MDServerError", s |-> s]
    ELSE IF ~md.merged /\ ~getHeadForTLF(s, md.BID).found
    THEN PutOnMaster(s, c, md,
             GetRange(s, c, NullBranchID, TRUE, md.Revision - 1,
                      md.Revision - 1))
    ELSE PutChecked(s, c, md, getHeadForTLF(s, md.BID).head,
                    getHeadForTLF(s, md.BID).found, FALSE)

\* line 409-424 of Put: the block is appended to the list of its branch
PutStore(s, md) ==
    IF "mdDb" \in s.nil THEN [err |-> errMDServerMemoryShutdown, s |-> s]
    ELSE IF md.BID \in DOMAIN s.mdDb
    THEN [err |-> "",
          s |-> [s EXCEPT !.mdDb[md.BID].blocks = Append(@, md)]]
    ELSE [err |-> "",
          s |-> [s EXCEPT !.mdDb = MapPut(@, md.BID,
                     [initialRevision |-> md.Revision, blocks |-> <<md>>])]]

\* PruneBranch(id, bid)
PruneBranch(s, c, bid) ==
    IF bid = NullBranchID THEN [err |-> "MDServerErrorBadRequest", s |-> s]
    ELSE IF getBranchID(s, c).err # ""
    THEN [err |-> getBranchID(s, c).err, s |-> s]
    ELSE IF getBranchID(s, c).bid = NullBranchID \/ bid # getBranchID(s, c).bid
    THEN [err |-> "MDServerErrorBadRequest", s |-> s]
    ELSE IF "mdDb" \in s.nil THEN [err |-> errMDServerMemoryShutdown, s |-> s]
    ELSE [err |-> "", s |-> [s EXCEPT !.branchDb = MapDel(@, c)]]

\* TruncateLock(id): the lock manager gives the lock to one device
TruncateLock(s, c) ==
    IF "truncateLockManager" \in s.nil
    THEN [err |-> errMDServerMemoryShutdown, s |-> s]
    ELSE IF s.lockedBy \notin {"none", c}
    THEN [err |-> "MDServerErrorLocked", s |-> s]
    ELSE [err |-> "", s |-> [s EXCEPT !.lockedBy = c]]

\* TruncateUnlock(id)
TruncateUnlock(s, c) ==
    IF "truncateLockManager" \in s.nil
    THEN [err |-> errMDServerMemoryShutdown, s |-> s]
    ELSE IF s.lockedBy \notin {"none", c}
    THEN [err |-> "MDServerErrorLocked", s |-> s]
    ELSE [err |-> "", s |-> [s EXCEPT !.lockedBy = "none"]]

\* Shutdown (line 546-554)
Shutdown(s) ==
    [s EXCEPT !.nil = @ \cup {"handleDb", "latestHandleDb", "branchDb",
                              "truncateLockManager"}]

\* the revisions of a list of mds
Revisions(rmdses) == [i \in 1..Len(rmdses) |-> rmdses[i].Revision]

\* a call of device c returns
MdsReturns(op, c, err, s) ==
    [NoMdsCall EXCEPT !.op = op, !.c = c, !.err = err,
                      !.changed = s # mds,
                      !.afterShutdown = isShutdown(mds)]

\* the mds a client may put
MdsInputs(c) ==
    {NewRMDS(rev, merged, bid) :
        rev \in 1..MaxMdsRevision, merged \in BOOLEAN,
        bid \in {NullBranchID, BranchIDOf(c)}}

\* md follows the head of its branch as the server has it now
FollowsHead(s, md) ==
    getHeadForTLF(s, md.BID).found
        => md.Revision = getHeadForTLF(s, md.BID).head.Revision + 1

MdsPutBegins(c, md, r) ==
    /\ mds' = r.s
    /\ mdsPut' = [mdsPut EXCEPT ![c] =
                     IF r.err # "" THEN NoPut
                     ELSE [pc |-> "store", md |-> md,
                           afterShutdown |-> isShutdown(mds)]]
    /\ mdsLast' = IF r.err = "" THEN mdsLast
                  ELSE [MdsReturns("Put", c, r.err, r.s) EXCEPT
                           !.merged = md.merged, !.md = md,
                           !.successor = FollowsHead(mds, md)]

\* Put(rmds) up to its last hold of the lock
MdsPutBegin(c) ==
    /\ mdsCalls < MaxMdsCalls
    /\ mdsPut[c].pc = "idle"
    /\ \E md \in MdsInputs(c) : MdsPutBegins(c, md, PutBegin(mds, c, md))
    /\ mdsCalls' = mdsCalls + 1
    /\ UNCHANGED <<brqVars, brqHist, fboVars, fboHist, readVars, dbcVars, fbmVars, mdcVars>>

MdsPutEnds(c, md, r) ==
    /\ mds' = r.s
    /\ mdsLast' = [MdsReturns("Put", c, r.err, r.s) EXCEPT
                      !.merged = md.merged, !.md = md,
                      !.successor = FollowsHead(mds, md),
                      !.stored = r.err = "",
                      !.afterShutdown = mdsPut[c].afterShutdown]

\* the last hold of the lock of Put(rmds): the block is stored
MdsPutEnd(c) ==
    /\ mdsPut[c].pc = "store"
    /\ MdsPutEnds(c, mdsPut[c].md, PutStore(mds, mdsPut[c].md))
    /\ mdsPut' = [mdsPut EXCEPT ![c] = NoPut]
    /\ UNCHANGED <<mdsCalls, brqVars, brqHist, fboVars, fboHist, readVars, dbcVars, fbmVars, mdcVars>>

\* GetRange(id, bid, mStatus, start, stop)
MdsGetRange(c) ==
    /\ mdsCalls < MaxMdsCalls
    /\ \E merged \in BOOLEAN : \E bid \in {NullBranchID, BranchIDOf(c)} :
       \E rg \in {<<1, MaxMdsRevision + 1>>, <<2, 2>>} :
         LET r == GetRange(mds, c, bid, merged, rg[1], rg[2])
         IN  mdsLast' = [MdsReturns("GetRange", c, r.err, mds) EXCEPT
                            !.merged = merged,
                            !.revs = Revisions(r.rmdses)]
    /\ mdsCalls' = mdsCalls + 1
    /\ UNCHANGED <<mds, mdsPut, brqVars, brqHist, fboVars, fboHist, readVars, dbcVars, fbmVars, mdcVars>>

\* GetForTLF(id, bid, mStatus)
MdsGetForTLF(c) ==
    /\ mdsCalls < MaxMdsCalls
    /\ \E merged \in BOOLEAN : \E bid \in {NullBranchID, BranchIDOf(c)} :
         LET r == GetForTLF(mds, c, bid, merged)
         IN  mdsLast' = [MdsReturns("GetForTLF", c, r.err, mds) EXCEPT
                            !.merged = merged,
                            !.revs = IF r.found THEN <<r.head.Revision>>
                                     ELSE <<>>]
    /\ mdsCalls' = mdsCalls + 1
    /\ UNCHANGED <<mds, mdsPut, brqVars, brqHist, fboVars, fboHist, readVars, dbcVars, fbmVars, mdcVars>>

MdsCallReturns(op, c, r) ==
    /\ mds' = r.s
    /\ mdsLast' = MdsReturns(op, c, r.err, r.s)

\* PruneBranch(id, bid) with the branch of the device
MdsPruneBranch(c) ==
    /\ mdsCalls < MaxMdsCalls
    /\ MdsCallReturns("PruneBranch", c, PruneBranch(mds, c, BranchIDOf(c)))
    /\ mdsCalls' = mdsCalls + 1
    /\ UNCHANGED <<mdsPut, brqVars, brqHist, fboVars, fboHist, readVars, dbcVars, fbmVars, mdcVars>>

\* TruncateLock(id)
MdsTruncateLock(c) ==
    /\ mdsCalls < MaxMdsCalls
    /\ MdsCallReturns("TruncateLock", c, TruncateLock(mds, c))
    /\ mdsCalls' = mdsCalls + 1
    /\ UNCHANGED <<mdsPut, brqVars, brqHist, fboVars, fboHist, readVars, dbcVars, fbmVars, mdcVars>>

\* TruncateUnlock(id)
MdsTruncateUnlock(c) ==
    /\ mdsCalls < MaxMdsCalls
    /\ MdsCallReturns("TruncateUnlock", c, TruncateUnlock(mds, c))
    /\ mdsCalls' = mdsCalls + 1
    /\ UNCHANGED <<mdsPut, brqVars, brqHist, fboVars, fboHist, readVars, dbcVars, fbmVars, mdcVars>>

\* Shutdown()
MdsShutdown ==
    /\ ~isShutdown(mds)
    /\ mds' = Shutdown(mds)
    /\ mdsLast' = MdsReturns("Shutdown", "d1", "", Shutdown(mds))
    /\ UNCHANGED <<mdsPut, mdsCalls, brqVars, brqHist, fboVars, fboHist, readVars, dbcVars, fbmVars, mdcVars>>

MdsNext ==
    \/ \E c \in MdsDevices : MdsPutBegin(c)
    \/ \E c \in MdsDevices : MdsPutEnd(c)
    \/ \E c \in MdsDevices : MdsGetRange(c)
    \/ \E c \in MdsDevices : MdsGetForTLF(c)
    \/ \E c \in MdsDevices : MdsPruneBranch(c)
    \/ \E c \in MdsDevices : MdsTruncateLock(c)
    \/ \E c \in MdsDevices : MdsTruncateUnlock(c)
    \/ MdsShutdown

(***************************************************************************)
(* The folder: initial state and the operations of its callers.            *)
(***************************************************************************)
\* a folder with one empty file per name, committed and clean
InitPtr == [f \in Files |-> 1]

InitFbo ==
    LET id(f) == InitPtr[f]
    IN  [nodePath |-> [f \in Files |-> id(f)],
         dirEntries |-> [f \in Files |->
                           [ptr |-> id(f), EncodedSize |-> ReadyEncodedSize,
                            Size |-> 0]],
         bcache |-> [p \in {id(f) : f \in Files} |-> NewFileBlock],
         dirtyBcache |-> EmptyMap,
         dirtyFiles |-> EmptyMap,
         unrefCache |-> EmptyMap,
         deCache |-> EmptyMap,
         deferredWrites |-> <<>>,
         deferredDirtyDeletes |-> <<>>,
         doDeferWrite |-> FALSE,
         nextID |-> 2,
         sameObj |-> {},
         replaced |-> {},
         unfetchable |-> {}]

\* what a caller sees of the file: the size of its entry and the offsets of
\* its top block
FileShape(st, f) ==
    LET tail == st.nodePath[f]
        top == getBlockHelperLocked(st, tail)
    IN  [Size |-> getDirtyEntryLocked(st, f).Size,
         offs |-> IF HasBlock(st, tail)
                  THEN [i \in 1..Len(top.IPtrs) |-> top.IPtrs[i].Off]
                  ELSE <<>>]

\* the last Write of a file: whether it is still the last change of the
\* file, whether a sync was in progress when it was made, whether it was
\* deferred, and whether a sync of the file has failed since
NoWrite == [valid |-> FALSE, off |-> 0, data |-> <<>>, syncing |-> FALSE,
            deferred |-> FALSE, syncFailed |-> FALSE]

NoPrev == [kind |-> "Init", size |-> 0, err |-> "", shape |-> [Size |-> 0, offs |-> <<>>]]

NoOp ==
    [kind |-> "Init", f |-> "a", tail |-> 0, size |-> 0, err |-> "",
     deferred |-> FALSE, noop |-> FALSE, syncing |-> FALSE,
     recoverable |-> FALSE, blocksToRemove |-> {}, sync |-> NoSync,
     replayed |-> FALSE, mutated |-> FALSE, fault |-> 0, taken |-> 0, shape |-> [Size |-> 0, offs |-> <<>>],
     prev |-> NoPrev]

\* the record of an operation on f that leads from fbo to st; the shape of
\* the file is recorded for a Truncate, and the previous operation for a
\* Truncate that repeats it
OpRecord(kind, f, st) ==
    [NoOp EXCEPT !.kind = kind, !.f = f, !.tail = fbo.nodePath[f],
                 !.syncing = syncs[f].active]

TruncateRecord(f, st, size) ==
    [OpRecord("Truncate", f, st) EXCEPT
        !.size = size,
        !.shape = FileShape(st, f),
        !.prev = IF lastOp.kind = "Truncate" /\ lastOp.size = size
                    /\ lastOp.f = f
                 THEN [kind |-> lastOp.kind, size |-> lastOp.size,
                       err |-> lastOp.err, shape |-> lastOp.shape]
                 ELSE NoPrev]

Crashes(err) == err \in {"panic", "diverged"}

FboInitVars ==
    /\ fbo = InitFbo
    /\ syncs = [f \in Files |-> NoSync]
    /\ opCount = 0
    /\ syncCount = 0
    /\ lastOp = NoOp
    /\ lastWrite = [f \in Files |-> NoWrite]
    /\ reader = NoReader
    /\ dbc = NoDirtyBytes
    /\ writer = NoWriter
    /\ FbmInitVars
    /\ MdcInitVars
    /\ MdsInitVars

\* the bytes of a Write: the number of the call
WriteData(len) == [i \in 1..len |-> opCount + 1]

WriteReturns(f, off, data, r) ==
    /\ ~Crashes(r.err)
    /\ fbo' = r.st
    /\ lastOp' = [OpRecord("Write", f, r.st) EXCEPT
                     !.err = r.err, !.deferred = r.deferred]
    /\ lastWrite' = [lastWrite EXCEPT ![f] =
                        IF r.err = ""
                        THEN [valid |-> TRUE, off |-> off, data |-> data,
                              syncing |-> syncs[f].active,
                              deferred |-> r.deferred, syncFailed |-> FALSE]
                        ELSE NoWrite]
    /\ syncs' = [syncs EXCEPT ![f].wrote =
                    @ \/ (syncs[f].active /\ r.err = "" /\ r.deferred)]

\* Write(file, data, off)
Write(f) ==
    /\ opCount < MaxOps
    /\ \E rg \in WriteRanges :
         WriteReturns(f, rg[1], WriteData(rg[2]),
                      WriteFile(fbo, f, WriteData(rg[2]), rg[1]))
    /\ opCount' = opCount + 1
    /\ UNCHANGED <<syncCount, brqVars, brqHist, readVars, dbcVars, fbmVars, mdcVars, mdsVars>>

TruncateReturns(f, size, r) ==
    /\ ~Crashes(r.err)
    /\ fbo' = r.st
    /\ lastOp' = [TruncateRecord(f, r.st, size) EXCEPT
                     !.err = r.err, !.deferred = r.deferred, !.noop = r.noop]
    /\ syncs' = [syncs EXCEPT ![f].wrote =
                    @ \/ (syncs[f].active /\ r.err = "" /\ r.deferred)]

\* Truncate(file, size)
Truncate(f) ==
    /\ opCount < MaxOps
    /\ \E size \in TruncateSizes :
         TruncateReturns(f, size, TruncateFile(fbo, f, size))
    /\ lastWrite' = [lastWrite EXCEPT ![f] = NoWrite]
    /\ opCount' = opCount + 1
    /\ UNCHANGED <<syncCount, brqVars, brqHist, readVars, dbcVars, fbmVars, mdcVars, mdsVars>>

\* the sync is over with an error: CleanupSyncState with that error
AfterError(st, sy, err) ==
    IF err = "" THEN st ELSE CleanupSyncStateFile(st, sy, {}, FALSE)

StartSyncReturns(f, r) ==
    /\ ~Crashes(r.err)
    /\ fbo' = AfterError(r.st, r.sync, r.err)
    /\ syncs' = [syncs EXCEPT ![f] = IF r.err = "" THEN r.sync ELSE NoSync]
    /\ lastOp' = [OpRecord("StartSync", f, fbo') EXCEPT !.err = r.err]
    /\ lastWrite' = [lastWrite EXCEPT ![f].syncFailed = @ \/ r.err # ""]

\* a sync of f begins: StartSync, and CleanupSyncState if it fails
StartSync(f) ==
    /\ syncCount < MaxSyncs
    /\ ~syncs[f].active
    /\ IsDirtyPtr(fbo, fbo.nodePath[f])
    /\ StartSyncReturns(f, StartSyncFile(fbo, f))
    /\ syncCount' = syncCount + 1
    /\ UNCHANGED <<opCount, brqVars, brqHist, readVars, dbcVars, fbmVars, mdcVars, mdsVars>>

\* the block states of the sync that the caller has still to put, as
\* indexes of bps.blockStates
PendingPuts(f) ==
    IF syncs[f].tail \in DOMAIN fbo.unrefCache
    THEN {i \in 1..Len(fbo.unrefCache[syncs[f].tail].blockStates) :
             fbo.unrefCache[syncs[f].tail].blockStates[i].blockPtr
                 \notin syncs[f].uploaded}
    ELSE {}

PutReturns(f, tail, bs) ==
    /\ fbo' = IF tail \in DOMAIN fbo.dirtyFiles
              THEN [fbo EXCEPT !.dirtyFiles[tail] =
                       setBlockSynced(@, bs.oldPtr)]
              ELSE fbo
    /\ syncs' = [syncs EXCEPT ![f].uploaded = @ \cup {bs.blockPtr}]
    /\ lastOp' = OpRecord("PutBlock", f, fbo')

\* the caller puts the next block of bps; the completion callback of
\* line 2036
PutBlock(f) ==
    /\ syncs[f].active
    /\ PendingPuts(f) # {}
    /\ PutReturns(f, syncs[f].tail,
                  fbo.unrefCache[syncs[f].tail].blockStates[
                      SetMin(PendingPuts(f))])
    /\ UNCHANGED <<opCount, syncCount, lastWrite, brqVars, brqHist, readVars, dbcVars, fbmVars, mdcVars, mdsVars>>

\* the pointers the caller may report as failed: none, or the block whose
\* put failed
FailedPuts(f) ==
    {{}} \cup {{fbo.unrefCache[syncs[f].tail].blockStates[i].blockPtr} :
                 i \in {j \in PendingPuts(f) : j = SetMin(PendingPuts(f))}}

\* a put fails: CleanupSyncState(file, blocksToRemove, syncState, err)
SyncFail(f) ==
    /\ syncs[f].active
    /\ \E recoverable \in BOOLEAN :
       \E blocksToRemove \in FailedPuts(f) :
         /\ recoverable \/ blocksToRemove = {}
         /\ fbo' = CleanupSyncStateFile(fbo, syncs[f], blocksToRemove,
                                        recoverable)
         /\ lastOp' = [OpRecord("SyncFail", f, fbo') EXCEPT
                          !.recoverable = recoverable,
                          !.blocksToRemove = blocksToRemove,
                          !.sync = syncs[f]]
    /\ syncs' = [syncs EXCEPT ![f] = NoSync]
    /\ lastWrite' = [lastWrite EXCEPT ![f].syncFailed = TRUE]
    /\ UNCHANGED <<opCount, syncCount, brqVars, brqHist, readVars, dbcVars, fbmVars, mdcVars, mdsVars>>

FinishSyncReturns(f, r) ==
    /\ ~Crashes(r.err)
    /\ fbo' = AfterError(r.st, syncs[f], r.err)
    /\ lastOp' = [OpRecord("FinishSync", f, fbo') EXCEPT
                     !.err = r.err, !.replayed = r.stillDirty,
                     !.sync = syncs[f]]
    /\ lastWrite' = [lastWrite EXCEPT ![f].syncFailed = @ \/ r.err # ""]

\* all puts succeeded: the caller commits the new path and calls FinishSync;
\* an error of FinishSync reaches the deferred CleanupSyncState
FinishSync(f) ==
    /\ syncs[f].active
    /\ PendingPuts(f) = {}
    /\ FinishSyncReturns(f, FinishSyncFile(commitNewPath(fbo, syncs[f], f),
                                           syncs[f], f))
    /\ syncs' = [syncs EXCEPT ![f] = NoSync]
    /\ UNCHANGED <<opCount, syncCount, brqVars, brqHist, readVars, dbcVars, fbmVars, mdcVars, mdsVars>>

\* the blocks of the new path of f that a replay has to fetch
NewPathPtrs(st, f) ==
    {st.nodePath[f]} \cup
    {st.bcache[st.nodePath[f]].IPtrs[i].ptr :
        i \in 1..Len(st.bcache[st.nodePath[f]].IPtrs)}

FinishSyncFaultReturns(f, p, r) ==
    /\ r.err # ""
    /\ ~Crashes(r.err)
    /\ fbo' = [AfterError(r.st, syncs[f], r.err) EXCEPT !.unfetchable = {}]
    /\ lastOp' = [OpRecord("FinishSync", f, fbo') EXCEPT
                     !.err = r.err, !.replayed = r.stillDirty,
                     !.sync = syncs[f], !.fault = p,
                     !.taken = Len(fbo.deferredWrites)]
    /\ lastWrite' = [lastWrite EXCEPT ![f].syncFailed = TRUE]

\* FinishSync while the fetch of one block of the new path fails: a replayed
\* closure that needs the block returns the error
FinishSyncFault(f) ==
    /\ syncs[f].active
    /\ PendingPuts(f) = {}
    /\ \E p \in NewPathPtrs(commitNewPath(fbo, syncs[f], f), f) :
         FinishSyncFaultReturns(f, p,
             FinishSyncFile([commitNewPath(fbo, syncs[f], f) EXCEPT
                                !.unfetchable = {p}], syncs[f], f))
    /\ syncs' = [syncs EXCEPT ![f] = NoSync]
    /\ UNCHANGED <<opCount, syncCount, brqVars, brqHist, readVars, dbcVars, fbmVars, mdcVars, mdsVars>>

\* what Write and Truncate may change of the folder's block state
BlockState(st) ==
    [dirtyBcache |-> st.dirtyBcache, deCache |-> st.deCache,
     unrefCache |-> st.unrefCache, dirtyFiles |-> st.dirtyFiles,
     deferredWrites |-> st.deferredWrites]

WriteFaultReturns(f, r) ==
    /\ r.err # ""
    /\ ~Crashes(r.err)
    /\ fbo' = [r.st EXCEPT !.unfetchable = {}]
    /\ lastOp' = [OpRecord("Write", f, r.st) EXCEPT
                     !.err = r.err,
                     !.mutated = BlockState(r.st) # BlockState(fbo)]

\* the blocks of the committed file: they come from the server once the
\* clean cache has let go of them
CommittedPtrs(f) ==
    {fbo.dirEntries[f].ptr} \cup
    {fbo.bcache[fbo.dirEntries[f].ptr].IPtrs[i].ptr :
        i \in 1..Len(fbo.bcache[fbo.dirEntries[f].ptr].IPtrs)}

\* Write(file, data, off) while the fetch of one committed block fails
WriteFault(f) ==
    /\ opCount < MaxOps
    /\ \E rg \in WriteRanges :
       \E p \in CommittedPtrs(f) \ DOMAIN fbo.dirtyBcache :
         WriteFaultReturns(f, WriteFile([fbo EXCEPT !.unfetchable = {p}], f,
                                        WriteData(rg[2]), rg[1]))
    /\ lastWrite' = [lastWrite EXCEPT ![f] = NoWrite]
    /\ opCount' = opCount + 1
    /\ UNCHANGED <<syncs, syncCount, brqVars, brqHist, readVars, dbcVars, fbmVars, mdcVars, mdsVars>>

FboNext ==
    \/ \E f \in Files : Write(f)
    \/ \E f \in Files : Truncate(f)
    \/ \E f \in Files : StartSync(f)
    \/ \E f \in Files : PutBlock(f)
    \/ \E f \in Files : SyncFail(f)
    \/ \E f \in Files : FinishSync(f)

\* writes and syncs whose replay of the deferred writes may fail
ReplayNext ==
    \/ \E f \in Files : Write(f)
    \/ \E f \in Files : StartSync(f)
    \/ \E f \in Files : PutBlock(f)
    \/ \E f \in Files : FinishSync(f)
    \/ \E f \in Files : FinishSyncFault(f)

\* writes and truncates of clean and dirty files, no sync
HolesNext ==
    \/ \E f \in Files : Write(f)
    \/ \E f \in Files : Truncate(f)

\* the operations with failing fetches, without truncates and failed syncs
FaultNext ==
    \/ \E f \in Files : Write(f)
    \/ \E f \in Files : WriteFault(f)
    \/ \E f \in Files : StartSync(f)
    \/ \E f \in Files : PutBlock(f)
    \/ \E f \in Files : FinishSync(f)

\* a folder with two files: the lists of deferred writes and deferred
\* deletes and the flag doDeferWrite are fields of the folder (line 147-156)
FolderFiles == {"a", "b"}

FolderPtr == [f \in FolderFiles |-> IF f = "a" THEN 1 ELSE 2]

InitFolder ==
    [InitFbo EXCEPT
        !.nodePath = FolderPtr,
        !.dirEntries = [f \in FolderFiles |->
                          [ptr |-> FolderPtr[f],
                           EncodedSize |-> ReadyEncodedSize, Size |-> 0]],
        !.bcache = [p \in {FolderPtr[f] : f \in FolderFiles} |-> NewFileBlock],
        !.nextID = Cardinality(FolderFiles) + 1]

FolderInitVars ==
    /\ fbo = InitFolder
    /\ syncs = [f \in FolderFiles |-> NoSync]
    /\ opCount = 0
    /\ syncCount = 0
    /\ lastOp = NoOp
    /\ lastWrite = [f \in FolderFiles |-> NoWrite]
    /\ reader = NoReader
    /\ dbc = NoDirtyBytes
    /\ writer = NoWriter
    /\ FbmInitVars
    /\ MdcInitVars
    /\ MdsInitVars

\* the syncs of a folder run one at a time (their caller holds the lock of
\* the folder's md writer from StartSync to FinishSync or CleanupSyncState)
FolderStartSync(f) ==
    /\ \A g \in FolderFiles : ~syncs[g].active
    /\ StartSync(f)

FolderNext ==
    \/ \E f \in FolderFiles : Write(f)
    \/ \E f \in FolderFiles : FolderStartSync(f)
    \/ \E f \in FolderFiles : PutBlock(f)
    \/ \E f \in FolderFiles : SyncFail(f)
    \/ \E f \in FolderFiles : FinishSync(f)

(***************************************************************************)
(* Read under the shared block lock.  getBlockHelperLocked gives up the    *)
(* lock while it waits for a block from the server (line 231-236,          *)
(* DoRUnlockedIfPossible); FinishSync may take the lock in between.        *)
(***************************************************************************)
\* inputs of Read: <<off, len(dest)>>
ReadRanges == {<<0, 4>>, <<2, 5>>}

\* the committed blocks of f that are not dirty: the clean cache may have
\* let go of any of them
Evictable(f) == CommittedPtrs(f) \ DOMAIN fbo.dirtyBcache

\* the pointers of the top block the Read started from that it has still
\* to follow: from the block it waited for to the end of its range
ToFollow(R) ==
    {R.fblock.IPtrs[i].ptr :
        i \in {j \in 1..Len(R.fblock.IPtrs) :
                 /\ R.fblock.IPtrs[j].Off < R.off + R.n
                 /\ \E k \in 1..j : R.fblock.IPtrs[k].ptr = R.want}}

ReadBegins(f, off, n, e, r) ==
    reader' =
        IF r.err = "NoSuchBlock" /\ r.want = e
        THEN [NoReader EXCEPT
                 !.pc = "fetching", !.f = f, !.tail = fbo.nodePath[f],
                 !.off = off, !.n = n,
                 !.fblock = getBlockHelperLocked(fbo, fbo.nodePath[f]),
                 !.part = r.part, !.want = e,
                 !.dirtyAtStart = DOMAIN fbo.dirtyBcache, !.waited = TRUE]
        ELSE [NoReader EXCEPT !.pc = "done", !.f = f, !.off = off, !.n = n,
                              !.data = r.data, !.err = r.err]

\* Read(file, dest, off) starts during a sync of the file; the clean cache
\* has let go of block e (0: of none)
ReadStart(f) ==
    /\ reader.pc = "idle"
    /\ syncs[f].active
    /\ HasBlock(fbo, fbo.nodePath[f])
    /\ \E rg \in ReadRanges : \E e \in Evictable(f) \cup {0} :
         ReadBegins(f, rg[1], rg[2], e,
                    ReadFile([fbo EXCEPT !.unfetchable = {e}], f, rg[2], rg[1]))
    /\ UNCHANGED <<fboVars, fboHist, brqVars, brqHist, dbcVars, fbmVars, mdcVars, mdsVars>>

ReadEnds(r) ==
    reader' = [reader EXCEPT
                  !.pc = "done", !.data = r.data, !.err = r.err,
                  !.lost = (ToFollow(reader) \cap reader.dirtyAtStart)
                               \ DOMAIN fbo.dirtyBcache]

\* the block has come from the server: the Read has the lock again and goes
\* on from the top block it holds
ReadResume ==
    /\ reader.pc = "fetching"
    /\ ReadEnds(readLoop(fbo, reader.tail, reader.fblock, reader.n, reader.off,
                         [NoRead EXCEPT !.data = reader.part]))
    /\ UNCHANGED <<fboVars, fboHist, brqVars, brqHist, dbcVars, fbmVars, mdcVars, mdsVars>>

\* a Read concurrent with a sync: while the Read waits for the server only
\* the sync goes on
ReadNext ==
    \/ \E f \in Files : reader.pc # "fetching" /\ Write(f)
    \/ \E f \in Files : reader.pc # "fetching" /\ Truncate(f)
    \/ \E f \in Files : reader.pc # "fetching" /\ StartSync(f)
    \/ \E f \in Files : PutBlock(f)
    \/ \E f \in Files : FinishSync(f)
    \/ \E f \in Files : ReadStart(f)
    \/ ReadResume
(***************************************************************************)
(* Write in the steps at which it can be suspended: the request for the    *)
(* permit and the registration with the file's tracker (line 1338-1346,    *)
(* 1053-1069), the wait for the permit (line 1073-1099), the write itself  *)
(* (line 1350-1400).  The other file stands for any file of any folder     *)
(* that shares the cache.                                                  *)
(***************************************************************************)
Blocks(st) == [dirtyBcache |-> st.dirtyBcache, bcache |-> st.bcache]

\* Write up to the wait: RequestPermissionToDirty, then
\* maybeWaitOnDeferredWrites takes the block lock, creates the file's
\* tracker, adds its error listener and gives the lock back
WriteRequest(f) ==
    /\ writer.pc \in {"idle", "done"}
    /\ opCount < MaxOps
    /\ \E rg \in WriteRanges :
         /\ dbc' = RequestPermissionToDirty(dbc, rg[2])
         /\ writer' = [NoWriter EXCEPT
                          !.pc = IF PermitGranted(dbc, rg[2])
                                 THEN "granted" ELSE "waiting",
                          !.f = f, !.off = rg[1], !.data = WriteData(rg[2]),
                          !.locks = 1,
                          !.waited = ~PermitGranted(dbc, rg[2]),
                          !.blocks = Blocks(fbo)]
    /\ fbo' = getOrCreateDirtyFileLocked(fbo, fbo.nodePath[f])
    /\ UNCHANGED <<syncs, fboHist, brqVars, brqHist, readVars, fbmVars, mdcVars, mdsVars>>

\* the permit has come: Write takes the block lock and writes; the bytes it
\* asked for are given back (line 1343) and the bytes it dirtied are
\* reported by the tracker (line 1201)
WriteProceeds ==
    /\ writer.pc = "granted"
    /\ WriteReturns(writer.f, writer.off, writer.data,
                    WriteFile(fbo, writer.f, writer.data, writer.off))
    /\ writer' = [writer EXCEPT
                     !.pc = "done", !.locks = @ + 1,
                     !.err = WriteFile(fbo, writer.f, writer.data,
                                       writer.off).err]
    /\ dbc' = UpdateUnsyncedBytes(
                  UpdateUnsyncedBytes(dbc, -Len(writer.data)),
                  Len(writer.data))
    /\ opCount' = opCount + 1
    /\ UNCHANGED <<syncCount, brqVars, brqHist, readVars, fbmVars, mdcVars, mdsVars>>

\* a Write of OtherLen bytes to the other file, from its request to its end
OtherWrite ==
    /\ dbc.other = 0
    /\ PermitGranted(dbc, OtherLen)
    /\ dbc' = [RequestPermissionToDirty(dbc, OtherLen) EXCEPT
                  !.other = OtherLen]
    /\ UNCHANGED <<writer, fboVars, fboHist, brqVars, brqHist, readVars, fbmVars, mdcVars, mdsVars>>

\* the permit of the waiting Write after the cache has changed from dbc to d
Signalled(d) ==
    /\ dbc' = IF writer.pc = "waiting"
              THEN SignalPermit(d, Len(writer.data)) ELSE d
    /\ writer' = IF writer.pc = "waiting"
                    /\ SignalPermit(d, Len(writer.data)) # d
                 THEN [writer EXCEPT !.pc = "granted"] ELSE writer

\* the sync of the other file succeeds: its bytes are no longer unsynced
OtherSync ==
    /\ dbc.other > 0
    /\ Signalled([UpdateUnsyncedBytes(dbc, -dbc.other) EXCEPT !.other = 0])
    /\ UNCHANGED <<fboVars, fboHist, brqVars, brqHist, readVars, fbmVars, mdcVars, mdsVars>>

AdmitNext ==
    \/ \E f \in Files : WriteRequest(f)
    \/ WriteProceeds
    \/ OtherWrite
    \/ OtherSync

(***************************************************************************)
(* The folder block manager's goroutines and the callers of its methods.   *)
(***************************************************************************)
\* the revisions of the merged branch that clients wrote
ClientRevisions == {i \in 1..Len(srv.merged) : srv.merged[i].gcLatest = 0}

\* the md a client writes next on a branch; it unreferences one block
NextMD(merged) ==
    NewMD(Len(srv.merged) + 1, merged, srv.writes + 1,
          <<Len(srv.merged) + 1>>, 0, srv.now)

\* the server takes the md
Stored(md) ==
    IF md.merged
    THEN [srv EXCEPT !.merged = Append(@, md), !.writes = @ + 1]
    ELSE [srv EXCEPT !.unmerged = @ \cup {md}, !.writes = @ + 1]

MDWriteGuard(merged) ==
    IF merged THEN Cardinality(ClientRevisions) < MaxRevisions
    ELSE /\ Cardinality(srv.unmerged) < MaxUnmerged
         /\ \A md \in srv.unmerged : md.Revision # Len(srv.merged) + 1

\* a sync or another md write of this client: the md is put and, after the
\* put, handed to archiveUnrefBlocks
MDWrite(merged) ==
    /\ MDWriteGuard(merged)
    /\ srv' = Stored(NextMD(merged))
    /\ fbm' = archiveUnrefBlocks(fbm, NextMD(merged))
    /\ UNCHANGED <<qr, fbmSteps, brqVars, brqHist, fboVars, fboHist, readVars, dbcVars, mdcVars, mdsVars>>

\* an md write that ends with an error after its blocks were put:
\* cleanUpBlockState registers the blocks; the md has reached the server
\* (landed) or not
MDWriteFails(merged) ==
    /\ MDWriteGuard(merged)
    /\ fbm.failedPuts < MaxFailedPuts
    /\ \E landed \in BOOLEAN :
         srv' = IF landed THEN Stored(NextMD(merged))
                ELSE [srv EXCEPT !.writes = @ + 1]
    /\ fbm' = [cleanUpBlockState(fbm, NextMD(merged), {-(srv.writes + 1)})
                  EXCEPT !.failedPuts = @ + 1]
    /\ UNCHANGED <<qr, fbmSteps, brqVars, brqHist, fboVars, fboHist, readVars, dbcVars, mdcVars, mdsVars>>

\* what can fail for an entry of processBlocksToDelete
CleanFaults == {"", "range", "codec", "perm", "again"}

\* archiveBlocksInBackground takes the next md of archiveChan
Archive ==
    /\ fbm.archiveChan # <<>>
    /\ \E archiveFails \in {FALSE, fbm.archiveFailures < MaxArchiveFailures} :
       \E faults \in [fbm.blocksToDeleteAfterError -> CleanFaults] :
         /\ srv' = archiveBlocks(srv, fbm, Head(fbm.archiveChan),
                                 archiveFails, faults).srv
         /\ fbm' = archiveBlocks(srv, fbm, Head(fbm.archiveChan),
                                 archiveFails, faults).fbm
    /\ UNCHANGED <<qr, fbmSteps, brqVars, brqHist, fboVars, fboHist, readVars, dbcVars, mdcVars, mdsVars>>

\* what can fail in a run of doReclamation
QRFaults == {"", "getMD", "lock", "walk", "collect", "delete", "finalize"}

\* reclaimQuotaInBackground: the timer or a forced reclamation starts a run
Reclaim ==
    /\ fbm.reclamations < MaxReclamations
    /\ \E fault \in QRFaults :
         /\ srv' = doReclamation(srv, fbm, fault).srv
         /\ fbm' = [doReclamation(srv, fbm, fault).fbm EXCEPT
                       !.reclamations = @ + 1]
         /\ qr' = doReclamation(srv, fbm, fault).qr
    /\ UNCHANGED <<fbmSteps, brqVars, brqHist, fboVars, fboHist, readVars, dbcVars, mdcVars, mdsVars>>

\* config.Clock().Now() moves on
Tick ==
    /\ srv.now < MaxClock
    /\ srv' = [srv EXCEPT !.now = @ + 1]
    /\ UNCHANGED <<fbm, qr, fbmSteps, brqVars, brqHist, fboVars, fboHist, readVars, dbcVars, mdcVars, mdsVars>>

\* a call of getUnreferencedBlocks(latestRev, earliestRev) on the history
\* of the server; qr records the arguments (lastGCRev: earliestRev, span:
\* latestRev - earliestRev) and what the call returned
UnrefsCall(latestRev, earliestRev, U) ==
    [NoQR EXCEPT !.ran = TRUE, !.log = <<"getUnreferencedBlocks">>,
                 !.ptrs = U.ptrs, !.latestRev = U.latestRev,
                 !.complete = U.complete, !.lastGCRev = earliestRev,
                 !.span = latestRev - earliestRev]

GetUnrefs ==
    /\ \E latestRev \in 0..Len(srv.merged) :
       \E earliestRev \in 0..Len(srv.merged) :
         qr' = UnrefsCall(latestRev, earliestRev,
                          getUnreferencedBlocks(srv, latestRev, earliestRev))
    /\ UNCHANGED <<srv, fbm, fbmSteps, brqVars, brqHist, fboVars, fboHist, readVars, dbcVars, mdcVars, mdsVars>>

\* the most gcOp revisions that other devices write
MaxOtherGCOps == 2

\* the quota reclamation of another device ends: finalizeReclamation writes
\* a revision with a gcOp
OtherReclaim ==
    /\ Len(srv.merged) - Cardinality(ClientRevisions) < MaxOtherGCOps
    /\ \E latestRev \in 1..Len(srv.merged) :
         srv' = finalizeReclamation(srv, latestRev)
    /\ UNCHANGED <<fbm, qr, fbmSteps, brqVars, brqHist, fboVars, fboHist, readVars, dbcVars, mdcVars, mdsVars>>

\* the collection of unreferenced blocks over histories with gcOps
UnrefsNext ==
    \/ MDWrite(TRUE)
    \/ OtherReclaim
    \/ GetUnrefs

\* how far the clock of another device is ahead
ClockAhead == 1

\* another device whose clock is ahead writes a revision: the mtime of its
\* directory is the time of that device (no second such revision while the
\* first is still ahead)
MDWriteAhead ==
    /\ MDWriteGuard(TRUE)
    /\ \A i \in 1..Len(srv.merged) : srv.merged[i].mtime <= srv.now
    /\ srv' = Stored([NextMD(TRUE) EXCEPT !.mtime = srv.now + ClockAhead])
    /\ UNCHANGED <<fbm, qr, fbmSteps, brqVars, brqHist, fboVars, fboHist, readVars, dbcVars, mdcVars, mdsVars>>

\* quota reclamation over revisions of devices with different clocks
ClocksNext ==
    \/ MDWrite(TRUE)
    \/ MDWriteAhead
    \/ Tick
    \/ Reclaim

\* the most entries that cleanUpBlockState registers
MaxRegistrations == 2

\* the most revisions of the merged branch while passes are looked at
MaxPassRevisions == 3

\* an md write that ends with an error after its blocks were put, at any
\* moment of a pass: cleanUpBlockState registers the blocks under
\* blocksToDeleteLock; the md has reached the server (landed) or not
RegisterFailedPut(merged) ==
    /\ MDWriteGuard(merged)
    /\ Len(srv.merged) < MaxPassRevisions
    /\ Cardinality(pass.registered) < MaxRegistrations
    /\ \E landed \in BOOLEAN :
         srv' = IF landed THEN Stored(NextMD(merged))
                ELSE [srv EXCEPT !.writes = @ + 1]
    /\ fbm' = cleanUpBlockState(fbm, NextMD(merged), {-(srv.writes + 1)})
    /\ pass' = [pass EXCEPT
                    !.registered = @ \cup {[md |-> NextMD(merged),
                                            ptrs |-> {-(srv.writes + 1)}]},
                    !.during = IF pass.pc = "idle" THEN @
                               ELSE @ \cup {[md |-> NextMD(merged),
                                             ptrs |-> {-(srv.writes + 1)}]}]
    /\ UNCHANGED <<qr, dg, brqVars, brqHist, fboVars, fboHist, readVars, dbcVars, mdcVars, mdsVars>>

\* an md write of this client that succeeds
PassMDWrite(merged) ==
    /\ Len(srv.merged) < MaxPassRevisions
    /\ MDWrite(merged)

\* archiveBlocksInBackground takes the next md of archiveChan, archives its
\* blocks and calls processBlocksToDelete, which takes the map (line
\* 325-335); with an empty map the pass is over
PassBegin ==
    /\ pass.pc = "idle"
    /\ fbm.archiveChan # <<>>
    /\ srv' = [srv EXCEPT !.archived =
                   @ \cup {Head(fbm.archiveChan).unrefs[i] :
                              i \in 1..Len(Head(fbm.archiveChan).unrefs)}]
    /\ fbm' = takeBlocksToDelete(
                  [fbm EXCEPT !.archiveChan = Tail(@),
                              !.archivedMDs = @ \cup {Head(fbm.archiveChan)}])
    /\ pass' = [pass EXCEPT
                    !.pc = IF fbm.blocksToDeleteAfterError = {} THEN "idle"
                           ELSE "loop",
                    !.toDelete = fbm.blocksToDeleteAfterError,
                    !.again = {}]
    /\ UNCHANGED <<qr, dg, brqVars, brqHist, fboVars, fboHist, readVars, dbcVars, mdcVars, mdsVars>>

PassEntryDone(e, S) ==
    /\ srv' = S.srv
    /\ fbm' = S.fbm
    /\ pass' = [pass EXCEPT !.toDelete = @ \ {e}, !.again = S.again]

\* the pass looks at the next entry of the map it took (line 337-385),
\* holding no lock
PassEntry ==
    /\ pass.pc = "loop"
    /\ \E e \in pass.toDelete : \E fault \in CleanFaults :
         PassEntryDone(e, CleanEntry([srv |-> srv, fbm |-> fbm,
                                      again |-> pass.again], e, fault))
    /\ UNCHANGED <<qr, dg, brqVars, brqHist, fboVars, fboHist, readVars, dbcVars, mdcVars, mdsVars>>

\* the pass has looked at every entry: toDeleteAgain is put back (line
\* 387-396)
PassEnd ==
    /\ pass.pc = "loop"
    /\ pass.toDelete = {}
    /\ fbm' = requeueBlocksToDelete(fbm, pass.again)
    /\ pass' = [pass EXCEPT !.pc = "idle", !.again = {}]
    /\ UNCHANGED <<srv, qr, dg, brqVars, brqHist, fboVars, fboHist, readVars, dbcVars, mdcVars, mdsVars>>

\* the passes of processBlocksToDelete and the md writes of the client,
\* step by step
PassNext ==
    \/ \E merged \in BOOLEAN : PassMDWrite(merged)
    \/ \E merged \in BOOLEAN : RegisterFailedPut(merged)
    \/ PassBegin
    \/ PassEntry
    \/ PassEnd

\* quota reclamation of a folder on its merged branch
QRNext ==
    \/ MDWrite(TRUE)
    \/ Tick
    \/ Reclaim

\* archival and cleanup after md writes on both branches
ArchiveNext ==
    \/ \E merged \in BOOLEAN : MDWrite(merged)
    \/ \E merged \in BOOLEAN : MDWriteFails(merged)
    \/ Archive


(***************************************************************************)
(* doChunkedDowngrades: the caller, its worker goroutines and the two      *)
(* channels.  The block server's Archive or Delete of a chunk succeeds or  *)
(* fails, whether the context is cancelled or not.                         *)
(***************************************************************************)
\* the pointers of a chunk (20 in the source)
numPointersToDowngradePerChunk == 2

\* the most worker goroutines of a call
maxParallelBlockPuts == 2

\* the most pointers of a call
MaxDowngradePtrs == 6

\* line 240-246: the number of chunks, rounded up, and of workers
NumChunks(n) ==
    (n + numPointersToDowngradePerChunk - 1) \div numPointersToDowngradePerChunk

NumDowngradeWorkers(n) ==
    IF NumChunks(n) > maxParallelBlockPuts THEN maxParallelBlockPuts
    ELSE NumChunks(n)

\* line 233-291: the call makes the channels and starts the workers
DowngradeCall ==
    /\ dg.pc = "idle"
    /\ \E n \in 0..MaxDowngradePtrs :
         dg' = [NoDowngrade EXCEPT
                   !.pc = "send",
                   !.numChunks = NumChunks(n),
                   !.worker = [w \in 1..NumDowngradeWorkers(n) |-> "range"]]
    /\ UNCHANGED <<srv, fbm, qr, pass, brqVars, brqHist, fboVars, fboHist, readVars, dbcVars, mdcVars, mdsVars>>

\* line 293-299: the next chunk is sent; chunks has room for all of them
DowngradeSend ==
    /\ dg.pc = "send"
    /\ dg.sent < dg.numChunks
    /\ Len(dg.chunks) < dg.numChunks
    /\ dg' = [dg EXCEPT !.chunks = Append(@, dg.sent + 1), !.sent = @ + 1]
    /\ UNCHANGED <<srv, fbm, qr, pass, brqVars, brqHist, fboVars, fboHist, readVars, dbcVars, mdcVars, mdsVars>>

\* line 300: close(chunks)
DowngradeClose ==
    /\ dg.pc = "send"
    /\ dg.sent = dg.numChunks
    /\ dg' = [dg EXCEPT !.closed = TRUE, !.pc = "collect"]
    /\ UNCHANGED <<srv, fbm, qr, pass, brqVars, brqHist, fboVars, fboHist, readVars, dbcVars, mdcVars, mdsVars>>

\* line 303-309: the caller takes the next result; an error ends the call
\* (the deferred cancel runs before the deferred wg.Wait)
DowngradeReceive ==
    /\ dg.pc = "collect"
    /\ dg.received < dg.numChunks
    /\ dg.chunkResults # <<>>
    /\ dg' = IF Head(dg.chunkResults).err # ""
             THEN [dg EXCEPT !.chunkResults = Tail(@), !.pc = "wait",
                             !.done = TRUE, !.zero = 0,
                             !.err = Head(dg.chunkResults).err]
             ELSE [dg EXCEPT !.chunkResults = Tail(@), !.received = @ + 1,
                             !.zero = @ + Head(dg.chunkResults).zero]
    /\ UNCHANGED <<srv, fbm, qr, pass, brqVars, brqHist, fboVars, fboHist, readVars, dbcVars, mdcVars, mdsVars>>

\* line 311: every result was taken
DowngradeCollected ==
    /\ dg.pc = "collect"
    /\ dg.received = dg.numChunks
    /\ dg' = [dg EXCEPT !.pc = "wait", !.done = TRUE]
    /\ UNCHANGED <<srv, fbm, qr, pass, brqVars, brqHist, fboVars, fboHist, readVars, dbcVars, mdcVars, mdsVars>>

\* line 253: the deferred wg.Wait() lets the call return when every worker
\* is gone
DowngradeReturn ==
    /\ dg.pc = "wait"
    /\ \A w \in DOMAIN dg.worker : dg.worker[w] = "exited"
    /\ dg' = [dg EXCEPT !.pc = "returned"]
    /\ UNCHANGED <<srv, fbm, qr, pass, brqVars, brqHist, fboVars, fboHist, readVars, dbcVars, mdcVars, mdsVars>>

\* line 265: for chunk := range chunks
DowngradeWorkerRange(w) ==
    /\ w \in DOMAIN dg.worker
    /\ dg.worker[w] = "range"
    /\ dg.chunks # <<>> \/ dg.closed
    /\ dg' = IF dg.chunks # <<>>
             THEN [dg EXCEPT !.chunks = Tail(@), !.worker[w] = "op"]
             ELSE [dg EXCEPT !.worker[w] = "exited"]
    /\ UNCHANGED <<srv, fbm, qr, pass, brqVars, brqHist, fboVars, fboHist, readVars, dbcVars, mdcVars, mdsVars>>

\* line 266-281: the chunk is archived or deleted and the result sent;
\* chunkResults has room for one result per chunk
DowngradeWorkerOp(w) ==
    /\ w \in DOMAIN dg.worker
    /\ dg.worker[w] = "op"
    /\ Len(dg.chunkResults) < dg.numChunks
    /\ \E err \in {"", "failed"} :
         dg' = [dg EXCEPT
                   !.chunkResults =
                       Append(@, [err |-> err,
                                  zero |-> IF err = "" THEN 1 ELSE 0]),
                   !.worker[w] = "select"]
    /\ UNCHANGED <<srv, fbm, qr, pass, brqVars, brqHist, fboVars, fboHist, readVars, dbcVars, mdcVars, mdsVars>>

\* line 282-287: the worker returns if the context has been cancelled
DowngradeWorkerSelect(w) ==
    /\ w \in DOMAIN dg.worker
    /\ dg.worker[w] = "select"
    /\ dg' = [dg EXCEPT !.worker[w] = IF dg.done THEN "exited" ELSE "range"]
    /\ UNCHANGED <<srv, fbm, qr, pass, brqVars, brqHist, fboVars, fboHist, readVars, dbcVars, mdcVars, mdsVars>>

\* the context the caller gave is cancelled (a timeout, cancelArchive,
\* cancelReclamation): the context of the call is its child (line 255)
DowngradeParentCancel ==
    /\ dg.pc \in {"send", "collect"}
    /\ ~dg.done
    /\ dg' = [dg EXCEPT !.done = TRUE]
    /\ UNCHANGED <<srv, fbm, qr, pass, brqVars, brqHist, fboVars, fboHist, readVars, dbcVars, mdcVars, mdsVars>>

DowngradeWorkers == 1..maxParallelBlockPuts

DowngradeNext ==
    \/ DowngradeCall
    \/ DowngradeSend
    \/ DowngradeClose
    \/ DowngradeReceive
    \/ DowngradeCollected
    \/ DowngradeReturn
    \/ \E w \in DowngradeWorkers : DowngradeWorkerRange(w)
    \/ \E w \in DowngradeWorkers : DowngradeWorkerOp(w)
    \/ \E w \in DowngradeWorkers : DowngradeWorkerSelect(w)
    \/ DowngradeParentCancel

\* the goroutines of the call are scheduled; nobody has to call, and no
\* context has to be cancelled
DowngradeFairness ==
    /\ WF_vars(DowngradeSend)
    /\ WF_vars(DowngradeClose)
    /\ WF_vars(DowngradeReceive)
    /\ WF_vars(DowngradeCollected)
    /\ WF_vars(DowngradeReturn)
    /\ \A w \in DowngradeWorkers : WF_vars(DowngradeWorkerRange(w))
    /\ \A w \in DowngradeWorkers : WF_vars(DowngradeWorkerOp(w))
    /\ \A w \in DowngradeWorkers : WF_vars(DowngradeWorkerSelect(w))

(***************************************************************************)
(* Properties of the block operations.                                     *)
(***************************************************************************)
FinishedSync == lastOp.kind = "FinishSync" /\ lastOp.err = ""

\* C1: right after a FinishSync that returns without error, the tail of the
\* synced path is not dirty, unrefCache and deCache have no entry for its
\* ref and dirtyFiles has no tracker for it; also when deferred writes were
\* replayed
C1_CleanAfterFinishSync ==
    FinishedSync =>
        /\ ~IsDirtyPtr(fbo, lastOp.tail)
        /\ lastOp.tail \notin DOMAIN fbo.unrefCache
        /\ lastOp.tail \notin DOMAIN fbo.deCache
        /\ lastOp.tail \notin DOMAIN fbo.dirtyFiles

C1_Witness == FinishedSync /\ lastOp.replayed

\* the last Write of f reads back
ReadsBack(f) ==
    ReadFile(fbo, f, Len(lastWrite[f].data), lastWrite[f].off).data
        = lastWrite[f].data

\* C2: the bytes of a Write made while a sync of the file is in progress
\* (the write is deferred) read back with the same length and offset, while
\* the sync runs and after FinishSync has replayed the write, as long as no
\* other write or truncate of the file follows and the sync does not fail
C2_WriteThenRead ==
    \A f \in Files :
        lastWrite[f].valid /\ lastWrite[f].syncing /\ ~lastWrite[f].syncFailed
            => ReadsBack(f)

\* the scenario: a first write, a sync of it, a second write next to the
\* first during the sync, FinishSync; the file reads as the first bytes
\* followed by the second
C2_Witness ==
    /\ FinishedSync /\ lastOp.replayed
    /\ lastWrite[lastOp.f].valid /\ lastWrite[lastOp.f].deferred
    /\ lastWrite[lastOp.f].off = MaxBlockSize
    /\ ReadFile(fbo, lastOp.f,
                lastWrite[lastOp.f].off + Len(lastWrite[lastOp.f].data), 0).data
           = [i \in 1..MaxBlockSize |-> 1] \o lastWrite[lastOp.f].data

OffsetsInOrder(block) ==
    block.IsInd /\ block.IPtrs # <<>> =>
        /\ block.IPtrs[1].Off = 0
        /\ \A i \in 1..(Len(block.IPtrs) - 1) :
              block.IPtrs[i].Off < block.IPtrs[i + 1].Off

\* C3: outside a sync, every indirect file block starts at offset 0 and has
\* strictly increasing offsets
C3_OffsetsInOrder ==
    (\A f \in Files : ~syncs[f].active) =>
        /\ \A p \in DOMAIN fbo.dirtyBcache : OffsetsInOrder(fbo.dirtyBcache[p])
        /\ \A p \in DOMAIN fbo.bcache : OffsetsInOrder(fbo.bcache[p])

RepeatedTruncate ==
    /\ lastOp.kind = "Truncate" /\ lastOp.err = ""
    /\ lastOp.prev.kind = "Truncate" /\ lastOp.prev.err = ""

\* C4: a Truncate to the size of the Truncate just before it leaves the
\* size of the entry and the offsets of the top block as they were
C4_TruncateIdempotent == RepeatedTruncate => lastOp.shape = lastOp.prev.shape

\* the last operation was a Write or a Truncate that changed the file
WroteOrTruncated ==
    lastOp.kind \in {"Write", "Truncate"} /\ lastOp.err = "" /\ ~lastOp.noop

\* C5: a Write or Truncate is deferred exactly if a sync of the file is in
\* progress
C5_DeferredIffSyncing == WroteOrTruncated => (lastOp.deferred <=> lastOp.syncing)

RecoveredSync == lastOp.kind = "SyncFail" /\ lastOp.recoverable

Readied(top, sy) ==
    {i \in 1..Len(top.IPtrs) :
        top.IPtrs[i].ptr \in DOMAIN sy.redirtyOnRecoverableError}

C7_SyncInfoRestored ==
    RecoveredSync /\ lastOp.sync.hasSi =>
        fbo.unrefCache[lastOp.tail] =
            [lastOp.sync.savedSi EXCEPT !.blockStates =
                KeptBlockStates_fromSnapshot(lastOp.blocksToRemove, @)]

\* C11: every pointer recorded in a file's tracker is in the dirty block
\* cache
C11_TrackedIsDirty ==
    \A t \in DOMAIN fbo.dirtyFiles :
        \A p \in DOMAIN fbo.dirtyFiles[t] : IsDirtyPtr(fbo, p)

\* C12: a Write that returns an error has left the dirty cache, deCache,
\* unrefCache, the trackers and deferredWrites as they were before the call
C12_ErrorLeavesState ==
    lastOp.kind = "Write" /\ lastOp.err # "" => ~lastOp.mutated

\* C13: a Read that gave up the block lock during a sync does not, once it
\* has the lock again, follow a pointer of the top block it started from
\* to a block that FinishSync has deleted from the dirty cache meanwhile
C13_ReadSeesNoDeletedBlock ==
    reader.pc = "done" /\ reader.waited => reader.lost = {}

\* the Write holds no permit yet although its request fits the budget
PermitDue ==
    PermitGranted([dbc EXCEPT !.waiting = @ - Len(writer.data)],
                  Len(writer.data))

Leaves(st, f) ==
    LET top == getBlockHelperLocked(st, st.nodePath[f])
    IN  IF top.IsInd
        THEN [i \in 1..Len(top.IPtrs) |->
                [Off |-> top.IPtrs[i].Off,
                 Contents |-> getBlockHelperLocked(st, top.IPtrs[i].ptr).Contents]]
        ELSE <<[Off |-> 0, Contents |-> top.Contents]>>

AllBlocksThere(st, f) ==
    /\ HasBlock(st, st.nodePath[f])
    /\ LET top == getBlockHelperLocked(st, st.nodePath[f])
       IN  top.IsInd =>
             \A i \in 1..Len(top.IPtrs) : HasBlock(st, top.IPtrs[i].ptr)

\* leaves in the order of their offsets, none running into the next, and at
\* least one ending before the next begins
WithHoles(lv) ==
    /\ lv[1].Off = 0
    /\ \A i \in 1..(Len(lv) - 1) :
          lv[i].Off + Len(lv[i].Contents) <= lv[i + 1].Off
    /\ \E i \in 1..(Len(lv) - 1) :
          lv[i].Off + Len(lv[i].Contents) < lv[i + 1].Off

EndOfLeaves(lv) == lv[Len(lv)].Off + Len(lv[Len(lv)].Contents)

\* the byte at offset k: of the leaf that holds it, zero in a hole
ByteAt(lv, k) ==
    LET i == CHOOSE j \in 1..Len(lv) :
                 lv[j].Off <= k /\ (j = Len(lv) \/ k < lv[j + 1].Off)
    IN  IF k - lv[i].Off < Len(lv[i].Contents)
        THEN lv[i].Contents[k - lv[i].Off + 1] ELSE 0

\* the n bytes from offset off, or as many as there are before the end
LogicalContent(lv, off, n) ==
    LET m == IF off >= EndOfLeaves(lv) THEN 0
             ELSE IF n < EndOfLeaves(lv) - off THEN n
             ELSE EndOfLeaves(lv) - off
    IN  [j \in 1..m |-> ByteAt(lv, off + j - 1)]

ThresholdRun ==
    /\ qr.ran
    /\ qr.fault = ""
    /\ qr.err = ""
    /\ qr.span = 2 * numPointersPerGCThreshold
    /\ qr.oneEach

\* C17: such a run returns at least the threshold of pointers and a latest
\* revision below the last of these revisions, and is not complete
C17_ThresholdRunIncomplete ==
    ThresholdRun =>
        /\ Len(qr.ptrs) >= numPointersPerGCThreshold
        /\ qr.latestRev < qr.lastGCRev + 2 * numPointersPerGCThreshold
        /\ ~qr.complete
        /\ ~fbm.wasLastQRComplete

\* the calls of a run in their order: a Delete or a gcOp comes after the
\* TruncateLock and before the TruncateUnlock, which is the last call
UnderLock(log) ==
    /\ \A i \in 1..Len(log) :
          log[i] \in {"delete", "gcOp"} =>
              /\ log[1] = "lock"
              /\ \A k \in 1..i : log[k] # "unlock"
    /\ (log # <<>> /\ log[1] = "lock") => log[Len(log)] = "unlock"

C19_NoDeleteOfHistory ==
    \A c \in fbm.cleaned : c.inHistory => ~c.deleteIssued

\* C20: every md in the archive channel and every md whose blocks were
\* archived is merged
C20_OnlyMergedArchived ==
    /\ \A i \in 1..Len(fbm.archiveChan) : fbm.archiveChan[i].merged
    /\ \A md \in fbm.archivedMDs : md.merged

\* an unmerged md was written and handed to archiveUnrefBlocks, another one
\* reached the server although its write failed and was handed to
\* archiveUnrefBlocksNoWait by the cleanup; merged mds were archived
C20_Witness ==
    /\ \E c \in fbm.cleaned :
          /\ ~c.md.merged
          /\ c.inHistory
          /\ ~c.deleteIssued
          /\ \E md \in srv.unmerged : md # c.md
    /\ fbm.archivedMDs # {}

(***************************************************************************)
(* Properties of the overall state, of the replay of deferred operations   *)
(* and of the end of a sync.                                               *)
(***************************************************************************)
\* GetState (line 178-186)
GetState(st) == IF DOMAIN st.deCache = {} THEN "cleanState" ELSE "dirtyState"

\* C21: after a Write that returned without error, and before any sync of
\* the file has finished, GetState returns dirtyState
C21_DirtyAfterWrite ==
    lastOp.kind = "Write" /\ lastOp.err = "" => GetState(fbo) = "dirtyState"

\* byte k of the deferred operation ws[j], a write, is not touched by a
\* later operation of ws
LastToTouch(ws, j, k) ==
    \A i \in (j + 1)..Len(ws) :
        /\ ws[i].kind = "Write"
        /\ ~(ws[i].off <= k /\ k < ws[i].off + Len(ws[i].data))

\* the file reads as the deferred writes ws applied in their order: each
\* byte is the byte of the last write to it
ReadsAsInOrder(st, f, ws) ==
    \A j \in 1..Len(ws) :
        ws[j].kind = "Write" =>
            \A k \in ws[j].off..(ws[j].off + Len(ws[j].data) - 1) :
                LastToTouch(ws, j, k) =>
                    ReadFile(st, f, 1, k).data = <<ws[j].data[k - ws[j].off + 1]>>

\* the step is a FinishSync of f that returns without error
FinishSyncStep(f) ==
    /\ syncs[f].active
    /\ lastOp'.kind = "FinishSync" /\ lastOp'.f = f /\ lastOp'.err = ""

\* C22: FinishSync replays the deferred writes in the order in which they
\* were deferred, after the deferred dirty pointers are gone from the dirty
\* cache: after it the file reads, at every byte a deferred write wrote, as
\* the last deferred write to that byte
C22_ReplayInOrder ==
    [][\A f \in Files :
          FinishSyncStep(f) => ReadsAsInOrder(fbo', f, fbo.deferredWrites)]_vars

\* two deferred writes that overlap have been replayed
C22_Witness ==
    /\ FinishedSync /\ lastOp.replayed
    /\ opCount = 3
    /\ lastWrite[lastOp.f].valid /\ lastWrite[lastOp.f].deferred
    /\ lastWrite[lastOp.f].off = 1
    /\ ReadFile(fbo, lastOp.f, 3, 0).data = <<2, 3, 2>>

\* the number of bytes in the leaves lv
RECURSIVE BytesIn(_)
BytesIn(lv) ==
    IF lv = <<>> THEN 0 ELSE Len(Head(lv).Contents) + BytesIn(Tail(lv))

\* the step is a Truncate of f that returns without error on a file whose
\* blocks are all at hand
TruncateStep(f) ==
    /\ opCount' = opCount + 1
    /\ lastOp'.kind = "Truncate" /\ lastOp'.f = f /\ lastOp'.err = ""
    /\ AllBlocksThere(fbo, f) /\ AllBlocksThere(fbo', f)

\* from st to st2 the file was extended to size with a hole: an empty leaf
\* at offset size, every pointer with its hole flag, the entry of that size,
\* no byte added to a leaf
ExtendedWithHole(st, st2, f, size) ==
    /\ getBlockHelperLocked(st2, st2.nodePath[f]).IsInd
    /\ \E i \in 1..Len(Leaves(st2, f)) :
          Leaves(st2, f)[i] = [Off |-> size, Contents |-> <<>>]
    /\ Len(Leaves(st2, f)) > Len(Leaves(st, f))
    /\ \A i \in 1..Len(getBlockHelperLocked(st2, st2.nodePath[f]).IPtrs) :
          getBlockHelperLocked(st2, st2.nodePath[f]).IPtrs[i].Holes
    /\ getDirtyEntryLocked(st2, f).Size = size
    /\ BytesIn(Leaves(st2, f)) = BytesIn(Leaves(st, f))

\* from st to st2 the file grew to size by zero bytes written after its end
GrownByZeros(st, st2, f, size) ==
    /\ BytesIn(Leaves(st2, f))
          = BytesIn(Leaves(st, f)) + size - EndOfLeaves(Leaves(st, f))
    /\ ReadFile(st2, f, size - EndOfLeaves(Leaves(st, f)),
                EndOfLeaves(Leaves(st, f))).data
          = Zeros(size - EndOfLeaves(Leaves(st, f)))

\* C26: a Truncate extends the file with a hole exactly when the size
\* exceeds the end of the file's last leaf by more than the cutoff; when it
\* exceeds it by the cutoff at most, the difference is written as zero bytes
C26_HoleExactlyPastCutoff ==
    [][\A f \in Files :
          TruncateStep(f) =>
              /\ ExtendedWithHole(fbo, fbo', f, lastOp'.size)
                    <=> lastOp'.size > EndOfLeaves(Leaves(fbo, f))
                                          + truncateExtendCutoffPoint
              /\ (/\ lastOp'.size > EndOfLeaves(Leaves(fbo, f))
                  /\ lastOp'.size <= EndOfLeaves(Leaves(fbo, f))
                                        + truncateExtendCutoffPoint)
                     => GrownByZeros(fbo, fbo', f, lastOp'.size)]_vars

\* the last of the deferred operations ws is a Truncate
LastIsTruncate(ws) == ws # <<>> /\ ws[Len(ws)].kind = "Truncate"

\* the truncate to size is in effect in st: the entry has the size, the
\* file is dirty and the folder reports it, a Read from size on returns no
\* bytes
TruncateInEffect(st, f, size) ==
    /\ getDirtyEntryLocked(st, f).Size = size
    /\ IsDirtyPtr(st, st.nodePath[f])
    /\ GetState(st) = "dirtyState"
    /\ ReadFile(st, f, MaxFileBytes, size).err = ""
    /\ ReadFile(st, f, MaxFileBytes, size).data = <<>>

\* C27: a Truncate made while the file is syncing, and which changes the
\* file, is deferred; after FinishSync has replayed it as the last deferred
\* operation of the sync the file has the size of the truncate, is dirty
\* and reads as empty from that size on
C27_DeferredTruncateInEffect ==
    [][\A f \in Files :
          /\ (/\ opCount' = opCount + 1
              /\ lastOp'.kind = "Truncate" /\ lastOp'.f = f
              /\ lastOp'.err = "" /\ ~lastOp'.noop
              /\ syncs[f].active) => lastOp'.deferred
          /\ (/\ FinishSyncStep(f)
              /\ syncs[f].wrote
              /\ LastIsTruncate(fbo.deferredWrites))
                 => /\ lastOp'.replayed
                    /\ TruncateInEffect(
                           fbo', f,
                           fbo.deferredWrites[Len(fbo.deferredWrites)].size)]_vars

\* CleanupSyncState has just run with an error: after a failed put, or from
\* the caller's deferred call when StartSync or FinishSync returned one
CleanedUp(op) ==
    \/ op.kind = "SyncFail"
    \/ op.kind \in {"StartSync", "FinishSync"} /\ op.err # ""

NoneSyncing(st) ==
    \A t \in DOMAIN st.dirtyFiles :
        \A p \in DOMAIN st.dirtyFiles[t] : st.dirtyFiles[t][p].sync # "Syncing"

\* C28: once CleanupSyncState has run with an error, recoverable or not, no
\* block of the file is Syncing and doDeferWrite is false, and a Write or
\* Truncate that comes next is not deferred and adds nothing to
\* deferredWrites
C28_SyncOverAfterCleanup ==
    [][/\ CleanedUp(lastOp') =>
             NoneSyncing(fbo') /\ ~fbo'.doDeferWrite
       /\ (/\ CleanedUp(lastOp)
           /\ opCount' = opCount + 1
           /\ lastOp'.kind \in {"Write", "Truncate"})
              => /\ ~lastOp'.deferred
                 /\ fbo'.deferredWrites = fbo.deferredWrites]_vars

\* the step is a FinishSync of f in which the replay of a deferred write
\* fails
ReplayFailedStep(f) ==
    /\ syncs[f].active
    /\ lastOp'.kind = "FinishSync" /\ lastOp'.f = f
    /\ lastOp'.err # "" /\ lastOp'.fault # 0

\* the state in which FinishSync starts the replay (line 2179-2207)
BeforeReplay(st, sy) ==
    DeleteAll([DeleteAll(st, sy.oldFileBlockPtrs) EXCEPT
                  !.deferredDirtyDeletes = <<>>, !.deferredWrites = <<>>],
              st.deferredDirtyDeletes)

\* the first k closures of ws run one after the other from st
RECURSIVE ReplayPrefix(_, _, _, _)
ReplayPrefix(st, f, ws, k) ==
    IF k = 0 THEN [st |-> st, err |-> ""]
    ELSE replayOne(ReplayPrefix(st, f, ws, k - 1).st, f, ws[k])

\* r is what the first failing closure of ws left, and its error
StoppedAtFirst(st, f, ws, r) ==
    \E k \in 1..Len(ws) :
        /\ \A j \in 1..(k - 1) : ReplayPrefix(st, f, ws, j).err = ""
        /\ ReplayPrefix(st, f, ws, k).err # ""
        /\ r.err = ReplayPrefix(st, f, ws, k).err
        /\ r.st = ReplayPrefix(st, f, ws, k).st

\* what before held for the path that ends in tail is still held after
NotCleared(before, after, tail) ==
    /\ tail \in DOMAIN before.deCache => tail \in DOMAIN after.deCache
    /\ tail \in DOMAIN before.unrefCache => tail \in DOMAIN after.unrefCache
    /\ tail \in DOMAIN before.dirtyFiles => tail \in DOMAIN after.dirtyFiles

FaultedFinish(f) ==
    FinishSyncFile([commitNewPath(fbo, syncs[f], f) EXCEPT
                       !.unfetchable = {lastOp'.fault}], syncs[f], f)

\* C29: when the replay of a deferred write fails inside FinishSync,
\* FinishSync returns stillDirty = true and the error of that write, no
\* later deferred write has run, and deCache, unrefCache and the tracker of
\* the old path are not cleared
C29_ReplayStopsAtError ==
    [][\A f \in Files :
          ReplayFailedStep(f) =>
              /\ FaultedFinish(f).stillDirty
              /\ FaultedFinish(f).err = lastOp'.err
              /\ StoppedAtFirst(
                     BeforeReplay([commitNewPath(fbo, syncs[f], f) EXCEPT
                                      !.unfetchable = {lastOp'.fault}],
                                  syncs[f]),
                     f, fbo.deferredWrites, FaultedFinish(f))
              /\ NotCleared(fbo, FaultedFinish(f).st, syncs[f].tail)
              /\ NotCleared(fbo, fbo', syncs[f].tail)]_vars

\* the leaf of f's top block under pointer p does not hold byte k
LeafElsewhere(st, f, p, k) ==
    \E i \in 1..Len(getBlockHelperLocked(st, st.nodePath[f]).IPtrs) :
        /\ getBlockHelperLocked(st, st.nodePath[f]).IPtrs[i].ptr = p
        /\ ~(/\ getBlockHelperLocked(st, st.nodePath[f]).IPtrs[i].Off <= k
             /\ k < getBlockHelperLocked(st, st.nodePath[f]).IPtrs[i].Off
                       + MaxBlockSize)

\* two writes were deferred; the first needed a leaf whose fetch failed, the
\* second another leaf, and its bytes are not in the file
C29_Witness ==
    /\ lastOp.kind = "FinishSync" /\ lastOp.err # "" /\ lastOp.replayed
    /\ lastOp.taken = 2
    /\ lastOp.tail \in DOMAIN fbo.deCache
    /\ lastOp.tail \in DOMAIN fbo.unrefCache
    /\ lastOp.tail \in DOMAIN fbo.dirtyFiles
    /\ lastWrite[lastOp.f].deferred
    /\ Len(lastWrite[lastOp.f].data) = 1
    /\ LeafElsewhere(fbo, lastOp.f, lastOp.fault, lastWrite[lastOp.f].off)
    /\ ReadFile(fbo, lastOp.f, 1, lastWrite[lastOp.f].off).err = ""
    /\ ReadFile(fbo, lastOp.f, 1, lastWrite[lastOp.f].off).data
          # lastWrite[lastOp.f].data

\* the step is a Write or a Truncate
WriteOrTruncateStep ==
    opCount' = opCount + 1 /\ lastOp'.kind \in {"Write", "Truncate"}

\* no block object of the clean cache is changed by the step
CleanCacheKept ==
    \A c \in DOMAIN fbo.bcache : fbo'.bcache[c] = fbo.bcache[c]

\* a dirty block that is Syncing is left as it is by the step, or another
\* object has taken its place in the dirty cache
SyncingKept ==
    \A t \in DOMAIN fbo.dirtyFiles : \A p \in DOMAIN fbo.dirtyFiles[t] :
        (/\ IsDirtyPtr(fbo, p)
         /\ fbo.dirtyFiles[t][p].sync = "Syncing"
         /\ p \notin fbo.replaced)
            => \/ IsDirtyPtr(fbo', p) /\ fbo'.dirtyBcache[p] = fbo.dirtyBcache[p]
               \/ p \in fbo'.replaced

\* the blocks of bps of the running sync of f are left as they are
UploadsKept(f) ==
    syncs[f].tail \in DOMAIN fbo.unrefCache =>
        \A i \in 1..Len(fbo.unrefCache[syncs[f].tail].blockStates) :
            /\ fbo.unrefCache[syncs[f].tail].blockStates[i].blockPtr
                   \in DOMAIN fbo'.bcache
            /\ fbo'.bcache[fbo.unrefCache[syncs[f].tail].blockStates[i].blockPtr]
                   = fbo.bcache[fbo.unrefCache[syncs[f].tail].blockStates[i].blockPtr]

\* C30: a Write or Truncate changes no block object of the clean cache and
\* no block that is Syncing, and while a sync runs the blocks of its bps
\* stay as StartSync handed them to the uploader
C30_NoMutationInPlace ==
    [][/\ WriteOrTruncateStep => CleanCacheKept /\ SyncingKept
       /\ \A f \in Files :
             syncs[f].active /\ syncs'[f].active => UploadsKept(f)]_vars

\* FinishSync(f) returns in this step
FinishSyncReturned(f) ==
    /\ syncs[f].active
    /\ ~syncs'[f].active
    /\ lastOp'.kind = "FinishSync"
    /\ lastOp'.f = f

\* the deferred closures FinishSync takes were made by writes to the path
\* of the sync
OwnDeferredWrites(f) ==
    \A i \in 1..Len(fbo.deferredWrites) :
        fbo.deferredWrites[i].filePath = syncs[f].tail

\* the dirty top blocks of the other files stay dirty
OthersStayDirty(f) ==
    \A g \in FolderFiles \ {f} :
        IsDirtyPtr(fbo, fbo.nodePath[g]) => IsDirtyPtr(fbo', fbo'.nodePath[g])

\* C35: FinishSync of a file replays only writes that were submitted to that
\* file, and deletes no dirty block of another file
C35_ReplayedOntoOwnFile ==
    [][\A f \in FolderFiles :
          FinishSyncReturned(f) => OwnDeferredWrites(f) /\ OthersStayDirty(f)]_vars

(***************************************************************************)
(* Properties of the metadata cache, stated over the calls made.           *)
(***************************************************************************)
\* call i used its key: a Put, or a Get that found it
IsUse(log, i) == log[i].op = "Put" \/ log[i].err = ""

\* the last call among the first n that used key, 0 if none did
LastUse(log, n, key) ==
    LET uses == {i \in 1..n : log[i].key = key /\ IsUse(log, i)}
    IN  IF uses = {} THEN 0 ELSE CHOOSE i \in uses : \A j \in uses : j <= i

\* the object last Put under key among the first n calls
LastPut(log, n, key) ==
    LET puts == {i \in 1..n : log[i].key = key /\ log[i].op = "Put"}
    IN  log[CHOOSE i \in puts : \A j \in puts : j <= i].rmd

\* after the first n calls key is among the MDCacheCapacity most recently
\* used keys
AmongMostRecent(log, n, key) ==
    /\ LastUse(log, n, key) # 0
    /\ Cardinality({log[j].key : j \in {i \in (LastUse(log, n, key) + 1)..n :
                                           IsUse(log, i)}})
           < MDCacheCapacity

\* C23: a Get returns the object last Put under its key if the key is among
\* the capacity most recently used keys, and a no-such-metadata error if the
\* key was evicted or never put
C23_LruCache ==
    \A i \in 1..Len(mdLog) :
        mdLog[i].op = "Get" =>
            IF AmongMostRecent(mdLog, i - 1, mdLog[i].key)
            THEN mdLog[i].err = ""
                 /\ mdLog[i].rmd = LastPut(mdLog, i - 1, mdLog[i].key)
            ELSE mdLog[i].err = "NoSuchMDError"

\* capacity 2, three Puts under three keys, the first key is gone
C23_Witness ==
    /\ Len(mdLog) = 4
    /\ \A i \in 1..3 : mdLog[i].op = "Put"
    /\ Cardinality({mdLog[i].key : i \in 1..3}) = 3
    /\ mdLog[4] = [op |-> "Get", key |-> mdLog[1].key, rmd |-> 0,
                   err |-> "NoSuchMDError"]

(***************************************************************************)
(* Properties of MDServerMemory.                                           *)
(***************************************************************************)
\* the blocks of the merged history have consecutive revisions from the
\* initial one: GetRange returns them in ascending consecutive order
MergedConsecutive(s) ==
    NullBranchID \in DOMAIN s.mdDb =>
        \A i \in 1..Len(s.mdDb[NullBranchID].blocks) :
            s.mdDb[NullBranchID].blocks[i].Revision
                = s.mdDb[NullBranchID].initialRevision + i - 1

\* the last call that returned is a Put of a merged revision that does not
\* follow the merged head the server has
PutOfNoSuccessor ==
    /\ mdsLast.op = "Put" /\ ~mdsLast.afterShutdown
    /\ mdsLast.md.merged /\ mdsLast.md.BID = NullBranchID
    /\ ~mdsLast.successor

\* C24: a Put of a merged revision that does not follow the merged head
\* fails with a revision conflict and leaves the server as it was, and the
\* merged history stays a list of consecutive revisions
C24_ConflictLeavesHistory ==
    /\ PutOfNoSuccessor =>
           mdsLast.err = "MDServerErrorConflictRevision" /\ ~mdsLast.changed
    /\ MergedConsecutive(mds)

\* the last call that returned began after Shutdown; a Put among them is
\* one of an md whose branch fits its merged status
CallAfterShutdown ==
    /\ mdsLast.afterShutdown
    /\ mdsLast.op \in {"Put", "GetRange", "GetForTLF", "PruneBranch",
                       "TruncateLock", "TruncateUnlock"}
    /\ mdsLast.op = "Put" =>
           mdsLast.md.merged = (mdsLast.md.BID = NullBranchID)

\* the call after Shutdown returned the shutdown error and stored nothing
RefusedAfterShutdown ==
    CallAfterShutdown =>
        mdsLast.err = errMDServerMemoryShutdown /\ ~mdsLast.changed

\* C25: after Shutdown handleDb, latestHandleDb, mdDb, branchDb and
\* truncateLockManager are nil, and every later Put, GetRange, GetForTLF,
\* PruneBranch, TruncateLock or TruncateUnlock returns the shutdown error
\* and stores nothing
C25_ShutdownNilsAll ==
    /\ isShutdown(mds) =>
           {"handleDb", "latestHandleDb", "mdDb", "branchDb",
            "truncateLockManager"} \subseteq mds.nil
    /\ RefusedAfterShutdown

\* every list of the server, merged or of a branch, holds consecutive
\* revisions from its initial one
AllConsecutive(s) ==
    \A key \in DOMAIN s.mdDb :
        \A i \in 1..Len(s.mdDb[key].blocks) :
            s.mdDb[key].blocks[i].Revision = s.mdDb[key].initialRevision + i - 1

\* C36: under concurrent Puts no list of the server holds a revision twice
\* or out of its place, and GetRange does not panic
C36_PutsSerialized ==
    /\ AllConsecutive(mds)
    /\ ~(mdsLast.op = "GetRange" /\ mdsLast.err = "panic")

\* ---------------------------------------------------------------------
\* folder_block_manager.go: the collection of unreferenced blocks

\* the unreferenced pointers of the merged revisions after earliestRev up to
\* rev, the newest revision first, revisions with a gcOp skipped
RECURSIVE UnrefsBetween(_, _, _)
UnrefsBetween(s, earliestRev, rev) ==
    IF rev <= earliestRev \/ rev = 0 THEN <<>>
    ELSE (IF s.merged[rev].gcLatest # 0 THEN <<>> ELSE s.merged[rev].unrefs)
         \o UnrefsBetween(s, earliestRev, rev - 1)

\* the latestRev the last call of getUnreferencedBlocks was given
AskedLatestRev == qr.lastGCRev + qr.span

\* C33: getUnreferencedBlocks(latestRev, earliestRev) returns exactly the
\* unreferenced pointers of the merged revisions after earliestRev up to the
\* revision it returns, gcOps skipped; it reports a complete range exactly
\* when it did not shorten the range; a shortened range ends after
\* earliestRev and keeps at least numPointersPerGCThreshold pointers
C33_UnreferencedBlocksOfRange ==
    qr.log = <<"getUnreferencedBlocks">> =>
        /\ qr.ptrs = UnrefsBetween(srv, qr.lastGCRev, qr.latestRev)
        /\ qr.complete <=> (qr.latestRev = AskedLatestRev \/ qr.span <= 0)
        /\ ~qr.complete =>
              /\ qr.latestRev > qr.lastGCRev
              /\ qr.latestRev < AskedLatestRev
              /\ Len(qr.ptrs) >= numPointersPerGCThreshold

\* a call over a range with a gcOp revision in it that was shortened to a
\* revision above that gcOp revision and dropped pointers
C33_Witness ==
    /\ qr.log = <<"getUnreferencedBlocks">>
    /\ ~qr.complete
    /\ qr.lastGCRev > 0
    /\ Len(qr.ptrs) < Len(UnrefsBetween(srv, qr.lastGCRev, AskedLatestRev))
    /\ \E r \in (qr.lastGCRev + 1)..qr.latestRev : srv.merged[r].gcLatest # 0

\* the merged revisions of clients that unreferenced the pointer
UnreferencedBy(p) ==
    {r \in ClientRevisions :
        \E i \in 1..Len(srv.merged[r].unrefs) : srv.merged[r].unrefs[i] = p}

\* C34: every pointer that quota reclamation deleted was unreferenced by a
\* merged revision that is old enough (the clock only moves on, so a
\* revision that is not old enough now was not old enough at the run)
C34_OnlyOldEnoughDeleted ==
    \A p \in srv.deleted :
        \E r \in UnreferencedBy(p) : isOldEnough(srv, srv.merged[r])

\* what the passes of processBlocksToDelete noted of a registered entry
NotesOf(e) == {c \in fbm.cleaned : c.md = e.md /\ c.ptrs = e.ptrs}

\* the mds that were handed to the archive goroutine
HandedToArchive ==
    fbm.archivedMDs \cup {fbm.archiveChan[i] : i \in 1..Len(fbm.archiveChan)}

\* the blocks of the entry were deleted at the block server
EntryDeleted(e) ==
    \E c \in NotesOf(e) :
        c.deleteIssued /\ c.fault \notin {"perm", "again"}
            /\ e.ptrs \subseteq srv.deleted

\* the put of the md had succeeded: the stored revision was handed to
\* archiveUnrefBlocksNoWait, which archives it unless it is unmerged
EntryArchived(e) ==
    \E c \in NotesOf(e) :
        /\ ~c.deleteIssued
        /\ c.inHistory
        /\ e.md.merged =>
              StoredAt(srv, TRUE, e.md.Revision) \subseteq HandedToArchive

\* the delete failed with a permanent error of the block server
EntryDropped(e) == \E c \in NotesOf(e) : c.deleteIssued /\ c.fault = "perm"

\* the entry waits for the next pass, or the running pass has it
EntryKept(e) ==
    \/ e \in fbm.blocksToDeleteAfterError
    \/ pass.pc = "loop" /\ e \in pass.toDelete \cup pass.again

C39_DowngradeReturns == (dg.pc # "idle") ~> (dg.pc = "returned")

BrqInitVars ==
    /\ ptrs = EmptyMap
    /\ retrievals = EmptyMap
    /\ insertionCount = 0
    /\ heap = <<>>
    /\ workerQueue = <<>>
    /\ workerCh = [w \in WorkerIds |-> <<>>]
    /\ notifiers = 0
    /\ holding = <<>>
    /\ worker = [w \in WorkerIds |-> [pc |-> "idle", br |-> -1]]
    /\ requestCount = 0
    /\ requestLog = [p \in BlockPtrs |-> <<>>]
    /\ dispatchLog = <<>>
    /\ dispatchPrio = EmptyMap
    /\ workAsked = FALSE
    /\ requestAfterWork = FALSE
    /\ lowIssued = 0
    /\ highReq = -1
    /\ highRetr = -1
    /\ highOnHeap = FALSE
    /\ popEmpty = FALSE

BrqInit == BrqInitVars /\ FboInitVars

FboInit == FboInitVars /\ BrqInitVars

SpecFbo == FboInit /\ [][FboNext]_vars

SpecFault == FboInit /\ [][FaultNext]_vars

SpecRead == FboInit /\ [][ReadNext]_vars

SpecHoles == FboInit /\ [][HolesNext]_vars

SpecQR == FboInit /\ [][QRNext]_vars

SpecArchive == FboInit /\ [][ArchiveNext]_vars

SpecAdmit == FboInit /\ [][AdmitNext]_vars

SpecMdc == FboInit /\ [][MdcNext]_vars

SpecMds == FboInit /\ [][MdsNext]_vars

SpecReplay == FboInit /\ [][ReplayNext]_vars

SpecUnrefs == FboInit /\ [][UnrefsNext]_vars

SpecClocks == FboInit /\ [][ClocksNext]_vars

SpecPass == FboInit /\ [][PassNext]_vars

SpecDowngrade == FboInit /\ [][DowngradeNext]_vars /\ DowngradeFairness

FolderInit == FolderInitVars /\ BrqInitVars

SpecFolder == FolderInit /\ [][FolderNext]_vars

BrqNext ==
    \/ Request
    \/ NotifyTakeWorker
    \/ NotifyPop
    \/ \E w \in WorkerIds : WorkOnRequest(w)
    \/ \E w \in WorkerIds : WorkerReceive(w)
    \/ \E w \in WorkerIds : FinalizeRequest(w)

SpecBrq == BrqInit /\ [][BrqNext]_vars

\* the goroutines of notifyWorker are scheduled, and the workers keep
\* calling WorkOnRequest, receive what is sent to them and finish their
\* fetches; no Request has to be made
BrqFairness ==
    /\ WF_vars(NotifyTakeWorker)
    /\ WF_vars(NotifyPop)
    /\ \A w \in WorkerIds : WF_vars(WorkOnRequest(w))
    /\ \A w \in WorkerIds : WF_vars(WorkerReceive(w))
    /\ \A w \in WorkerIds : WF_vars(FinalizeRequest(w))

SpecBrqLive == BrqInit /\ [][BrqNext]_vars /\ BrqFairness

\* the coalescing scenario: the same queue, the Requests of the scenario
ScenarioNext ==
    \/ RequestLow
    \/ RequestHigh
    \/ NotifyTakeWorker
    \/ NotifyPop
    \/ \E w \in WorkerIds : WorkOnRequest(w)
    \/ \E w \in WorkerIds : WorkerReceive(w)
    \/ \E w \in WorkerIds : FinalizeRequest(w)

SpecScenario == BrqInit /\ [][ScenarioNext]_vars

(***************************************************************************)
(* Properties of the retrieval queue.                                      *)
(***************************************************************************)
\* retrievals that were popped and not yet finalized
InFlight ==
    UNION {Range(workerCh[w]) : w \in WorkerIds}
        \cup {worker[w].br : w \in {v \in WorkerIds : worker[v].pc = "fetching"}}

LiveRetrievalsFor(p) ==
    {id \in Range(heap) \cup InFlight : retrievals[id].blockPtr = p}

\* C8: the Requests for a pointer made before FinalizeRequest for it share
\* exactly one retrieval (on the heap or with one worker), whose request
\* list holds each of them exactly once, in order.
C8_Coalesced ==
    \A p \in BlockPtrs :
        requestLog[p] # <<>> =>
            /\ p \in DOMAIN ptrs
            /\ LiveRetrievalsFor(p) = {ptrs[p]}
            /\ retrievals[ptrs[p]].requests = requestLog[p]
            /\ Cardinality({i \in 1..Len(dispatchLog) :
                              dispatchLog[i] = ptrs[p]}) <= 1

\* C8 witness: three requests share a retrieval that a worker is fetching
C8_Witness ==
    \E p \in BlockPtrs :
        /\ Len(requestLog[p]) >= 3
        /\ \E w \in WorkerIds :
              worker[w].pc = "fetching" /\ worker[w].br = ptrs[p]

\* order of two dispatched retrievals: priority descending, then FIFO
DispatchedBefore(a, b) ==
    \/ dispatchPrio[a] > dispatchPrio[b]
    \/ dispatchPrio[a] = dispatchPrio[b] /\ a < b

\* C9: when every Request was made before any worker asked for work, the
\* retrievals are popped in order of descending priority and, among equal
\* priorities, ascending insertionOrder.
C9_DispatchOrder ==
    ~requestAfterWork =>
        \A i, j \in 1..Len(dispatchLog) :
            i < j => DispatchedBefore(dispatchLog[i], dispatchLog[j])

\* C9 witness: three retrievals dispatched, two of equal priority and one
\* of another, all queued before the workers ran
C9_Witness ==
    /\ ~requestAfterWork
    /\ Len(dispatchLog) = 3
    /\ dispatchPrio[dispatchLog[1]] = HighPriority
    /\ dispatchPrio[dispatchLog[2]] = LowPriority
    /\ dispatchPrio[dispatchLog[3]] = LowPriority
    /\ dispatchLog[1] > dispatchLog[2]

\* C10 as stated: once the scenario's requests are all made, every
\* retrieval for the pointer that was handed to a worker had priority 5.
C10_Original ==
    (highReq # -1 /\ lowIssued = MaxLowRequests) =>
        \A id \in DOMAIN dispatchPrio : dispatchPrio[id] = HighPriority

\* C10 amended: the retrieval has the high priority when it is handed to a
\* worker if the high-priority Request arrived while it was on the heap.
C10_PriorityIfQueued ==
    (highReq # -1 /\ highOnHeap /\ highRetr \in DOMAIN dispatchPrio) =>
        dispatchPrio[highRetr] = HighPriority

\* C10 witness: the retrieval was created by a low-priority Request, raised
\* by the high-priority one and then handed to a worker
C10_Witness ==
    /\ highReq # -1 /\ highOnHeap
    /\ highRetr \in DOMAIN dispatchPrio
    /\ Len(retrievals[highRetr].requests) = MaxLowRequests + 1
    /\ retrievals[highRetr].requests[1] # highReq
    /\ dispatchPrio[highRetr] = HighPriority


(***************************************************************************)
(* Properties of the retrieval queue: the heap, the in-progress retrieval  *)
(* and the dispatchers.                                                    *)
(***************************************************************************)
\* the step takes retrieval id off the heap
LeavesHeap(id) == id \in Range(heap) /\ id \notin Range(heap')

\* the step is the pop of a dispatcher that holds a worker's channel, and it
\* hands id to that worker
PoppedByDispatcher(id) ==
    /\ holding # <<>>
    /\ Len(holding') = Len(holding) - 1
    /\ requestCount' = requestCount
    /\ id = Head(heap)
    /\ dispatchLog' = Append(dispatchLog, id)
    /\ \E w \in WorkerIds : workerCh'[w] = Append(workerCh[w], id)

PriorityMax(a, b) == IF a > b THEN a ELSE b

\* C31: a retrieval leaves the heap only in the pop of a dispatcher that has
\* taken a worker's channel, never in a Request; a Request for the pointer
\* of a retrieval on the heap leaves it with the larger of its priority and
\* the Request's; no retrieval's priority ever decreases
C31_OnHeapUntilWorkerReady ==
    [][/\ \A id \in DOMAIN retrievals :
             /\ LeavesHeap(id) => PoppedByDispatcher(id)
             /\ retrievals'[id].priority >= retrievals[id].priority
       /\ \A ptr \in BlockPtrs : \A priority \in Priorities :
             RequestStep(ptr, priority) =>
                 /\ Range(heap) \subseteq Range(heap')
                 /\ (ptr \in DOMAIN ptrs /\ ptrs[ptr] \in Range(heap)) =>
                       retrievals'[ptrs[ptr]].priority =
                           PriorityMax(retrievals[ptrs[ptr]].priority,
                                       priority)]_vars

\* the retrieval of the scenario is still on the heap: a low Request made
\* it, the high Request raised it, and a low Request after that left it at
\* the high priority
C31_Witness ==
    /\ highReq # -1 /\ highOnHeap
    /\ highRetr \in Range(heap)
    /\ retrievals[highRetr].priority = HighPriority
    /\ Len(retrievals[highRetr].requests) = 3
    /\ retrievals[highRetr].requests[2] = highReq

\* the retrieval of ptr was handed to a worker and is not finalized
InProgress(ptr) ==
    ptr \in DOMAIN ptrs /\ ptrs[ptr] \in InFlight

\* C32: a Request for a pointer whose retrieval is with a worker and not yet
\* finalized is appended to that retrieval, with no new heap entry and no
\* change of priority; the first Request for the pointer after
\* FinalizeRequest makes a new retrieval with a larger insertionOrder,
\* pushes it on the heap and starts a dispatcher
C32_JoinsUntilFinalized ==
    [][\A ptr \in BlockPtrs : \A priority \in Priorities :
          RequestStep(ptr, priority) =>
              /\ InProgress(ptr) =>
                    /\ ptrs' = ptrs
                    /\ heap' = heap
                    /\ notifiers' = notifiers
                    /\ insertionCount' = insertionCount
                    /\ retrievals'[ptrs[ptr]] =
                          [retrievals[ptrs[ptr]] EXCEPT
                              !.requests = Append(@, requestCount)]
              /\ ptr \notin DOMAIN ptrs =>
                    /\ ptrs'[ptr] \notin DOMAIN retrievals
                    /\ \A id \in DOMAIN retrievals :
                          retrievals'[ptrs'[ptr]].insertionOrder
                              > retrievals[id].insertionOrder
                    /\ retrievals'[ptrs'[ptr]].requests = <<requestCount>>
                    /\ Range(heap') = Range(heap) \cup {ptrs'[ptr]}
                    /\ notifiers' = notifiers + 1]_vars

\* the high Request of the scenario joined the retrieval while a worker had
\* it, which left it at the low priority; after FinalizeRequest a low
\* Request made a second retrieval, which is on the heap
C32_Witness ==
    /\ highReq # -1 /\ ~highOnHeap
    /\ highRetr \in Range(dispatchLog)
    /\ highRetr \notin InFlight
    /\ retrievals[highRetr].requests = <<0, highReq>>
    /\ retrievals[highRetr].priority = LowPriority
    /\ ScenarioPtr \in DOMAIN ptrs
    /\ ptrs[ScenarioPtr] > highRetr
    /\ ptrs[ScenarioPtr] \in Range(heap)
    /\ retrievals[ptrs[ScenarioPtr]].requests = <<highReq + 1>>
    /\ requestLog[ScenarioPtr] = <<highReq + 1>>

\* every retrieval that was pushed has been handed to a worker
AllDispatched ==
    /\ heap = <<>>
    /\ Len(dispatchLog) = insertionCount
    /\ notifiers = 0
    /\ holding = <<>>

\* C38: with finitely many Requests and workers that keep asking for work,
\* from some moment on every retrieval that was pushed on the heap has been
\* sent to a worker: as many dispatches as pushes, nothing left on the heap
C38_AllEventuallyDispatched == <>[]AllDispatched

\* three retrievals were pushed and all were handed to the two workers, one
\* of which had come back for more work
C38_Witness ==
    /\ AllDispatched
    /\ insertionCount = 3
    /\ requestAfterWork
    /\ \A w \in WorkerIds : workerCh[w] = <<>>

\* C40: a dispatcher never pops an empty heap and never blocks under the
\* mutex: the dispatchers that have not popped yet (started, or holding a
\* worker channel) are exactly as many as the retrievals on the heap, the
\* channel a dispatcher holds is empty when it sends, and no worker channel
\* ever holds more than one retrieval
C40_DispatcherNeverBlocks ==
    /\ ~popEmpty
    /\ notifiers + Len(holding) = Len(heap)
    /\ \A i \in 1..Len(holding) :
          /\ workerCh[holding[i]] = <<>>
          /\ \A j \in 1..Len(holding) : holding[j] = holding[i] => j = i
    /\ \A w \in WorkerIds : Len(workerCh[w]) <= 1

\* a dispatcher holds one worker's channel while the other worker's channel
\* still carries its retrieval, two retrievals wait on the heap and a second
\* dispatcher has been started for them
C40_Witness ==
    /\ Len(holding) = 1
    /\ \E w \in WorkerIds : workerCh[w] # <<>>
    /\ Len(heap) = 2
    /\ notifiers = 1
====
